---- MODULE Spec2Model ----
(***************************************************************************)
(* GitterFlow: worktree lifecycle (new) and merge-back controller (finish). *)
(*                                                                         *)
(* The repository is modelled as the git engine sees it: the registered    *)
(* working copies with their active branch, the local branches with the    *)
(* commits reachable from their tip, the branches of the remote, and the   *)
(* per-branch configuration key gitterflow-base-branch.  Each command of   *)
(* the CLI is a session that issues one git operation per step.            *)
(***************************************************************************)
EXTENDS Integers, Sequences, FiniteSets, TLC

\* ---------------------------------------------------------------- bounds
MaxSessions == 2
MaxEnvSteps == 2
MaxCommits == 3

\* ------------------------------------------------------------- universes
Sess == {1, 2}
SharedBranches == {"main", "develop"}
TaskNames == {"a", "feature/x"}
Commits == 1..MaxCommits
NoBranch == "<none>"
NoDir == << >>
NoExit == -1

\* ------------------------------------------------------------------ paths
\* A path is the sequence of its segments below the directory that holds
\* the main repository; the main repository itself is <<"repo">>.
Root == <<"repo">>

\* the segments of a branch name used as a relative path ("feature/x"
\* makes a nested directory)
Segs(b) == IF b = "feature/x" THEN <<"feature", "x">> ELSE <<b>>

Parent(p) == IF Len(p) = 0 THEN p ELSE SubSeq(p, 1, Len(p) - 1)

\* `../${branch}` resolved against the process working directory
SiblingPath(cwd, b) == Parent(cwd) \o Segs(b)

\* resolve(worktrees_dir, branch) with worktrees_dir = "../worktrees"
WorktreesDirPath(cwd, b) == Parent(cwd) \o <<"worktrees">> \o Segs(b)

\* ------------------------------------------------------------------ state
VARIABLES
    wt,        \* registered working copies: path -> active branch
    dirty,     \* working copies with uncommitted modifications
    heads,     \* local branches: name -> commits reachable from the tip
    origin,    \* branches of the remote: name -> commits
    assoc,     \* git config branch.<name>.gitterflow-base-branch
    merging,   \* working copies with an unconcluded merge: path -> MERGE_HEAD
    concluded, \* branches whose stopped merge the operator has just concluded
    sess,      \* the CLI sessions
    enabled,   \* the sessions that may run
    nStarted,  \* sessions started so far
    envSteps   \* operator actions so far

vars == <<wt, dirty, heads, origin, assoc, merging, concluded, sess, enabled, nStarted, envSteps>>
repo == <<wt, dirty, heads, origin, assoc>>

IdleSession ==
    [kind |-> "none", pc |-> "idle", cwd |-> NoDir, name |-> NoBranch,
     currentBranch |-> NoBranch, currentWorktreePath |-> NoDir,
     baseBranch |-> NoBranch, configBaseBranch |-> NoBranch, lookupFailed |-> {},
     baseBranchCheckedOut |-> FALSE,
     mainRepoDir |-> NoDir, worktreeRemoved |-> FALSE,
     found |-> NoDir, worktreesToDelete |-> {}, successCount |-> 0, failCount |-> 0,
     rawArgs |-> << >>, args |-> << >>, generated |-> << >>, printed |-> << >>,
     site |-> 0, left |-> 0, issued |-> 0, inFlight |-> 0,
     message |-> << >>, originalCwd |-> NoDir, enteredAt |-> -1,
     exitCode |-> NoExit, log |-> << >>]

\* loadConfig: every process reads the settings once; base_branch and
\* delete_remote_on_finish are inputs of the session that reads them
BaseBranchSettings == SharedBranches
DeleteRemoteSettings == BOOLEAN

InitRepo ==
    /\ wt = (Root :> "main")
    /\ dirty = {}
    /\ heads = [b \in SharedBranches |-> {1}]
    /\ origin = [b \in SharedBranches |-> {1}]
    /\ assoc = << >>

Init ==
    /\ InitRepo
    /\ merging = << >>
    /\ concluded = {}
    /\ sess = [s \in Sess |-> IdleSession]
    /\ enabled = {1}
    /\ nStarted = 0
    /\ envSteps = 0

\* ---------------------------------------------------------------- helpers
Quiescent == \A s \in Sess : sess[s].pc \in {"idle", "done"}
Running(s) == s \in enabled /\ sess[s].pc \notin {"idle", "done"}

UsedCommits == UNION {heads[b] : b \in DOMAIN heads} \cup UNION {origin[b] : b \in DOMAIN origin}
HasFreshCommit == Commits \ UsedCommits # {}
FreshCommit == CHOOSE c \in Commits \ UsedCommits : \A d \in Commits \ UsedCommits : c <= d

\* a branch is the active branch of at most one working copy
ActiveElsewhere(b, p) == \E q \in DOMAIN wt : q # p /\ wt[q] = b

\* the shell runs a command in the process working directory; git refuses
\* to run when that directory no longer exists
CwdExists(s) == sess[s].cwd \in DOMAIN wt

Entry(o, d, r) ==
    [op |-> o, dir |-> d, on |-> IF d \in DOMAIN wt THEN wt[d] ELSE NoBranch, res |-> r]

\* how a command issued from the session's directory ends: "nocwd" when the
\* directory is gone, "fail" when the engine fails for a reason outside the
\* model, else the answer the repository state gives
Res(s, fault, answer) ==
    IF ~CwdExists(s) THEN "nocwd" ELSE IF fault THEN "fail" ELSE answer

Logged(s, e) == Append(sess[s].log, e)

Return(r, code) == [r EXCEPT !.pc = "done", !.exitCode = code]

RemoveKey(f, k) == [x \in DOMAIN f \ {k} |-> f[x]]

\* ------------------------------------------------------ operator actions
\* The operator works in a working copy between sessions; the process of a
\* command that has returned is gone.
UserEdit(p) ==
    /\ Quiescent /\ envSteps < MaxEnvSteps
    /\ p \in DOMAIN wt /\ p \notin dirty
    /\ Cardinality(UsedCommits) + Cardinality(dirty) < MaxCommits
    /\ dirty' = dirty \cup {p}
    /\ envSteps' = envSteps + 1
    /\ concluded' = {}
    /\ sess' = [s \in Sess |-> IdleSession]
    /\ UNCHANGED <<wt, heads, origin, assoc, merging, enabled, nStarted>>

UserCommit(p) ==
    /\ Quiescent
    /\ p \in dirty /\ p \in DOMAIN wt /\ wt[p] \in DOMAIN heads
    /\ p \notin DOMAIN merging
    /\ HasFreshCommit
    /\ heads' = [heads EXCEPT ![wt[p]] = @ \cup {FreshCommit}]
    /\ dirty' = dirty \ {p}
    /\ concluded' = {}
    /\ sess' = [s \in Sess |-> IdleSession]
    /\ UNCHANGED <<wt, origin, assoc, merging, enabled, nStarted, envSteps>>

UserCheckout(p, b) ==
    /\ Quiescent /\ envSteps < MaxEnvSteps
    /\ p \in DOMAIN wt /\ p \notin dirty
    /\ b \in DOMAIN heads /\ wt[p] # b /\ ~ActiveElsewhere(b, p)
    /\ wt' = [wt EXCEPT ![p] = b]
    /\ envSteps' = envSteps + 1
    /\ concluded' = {}
    /\ sess' = [s \in Sess |-> IdleSession]
    /\ UNCHANGED <<dirty, heads, origin, assoc, merging, enabled, nStarted>>

UserPush(p) ==
    /\ Quiescent /\ envSteps < MaxEnvSteps
    /\ p \in DOMAIN wt /\ wt[p] \in DOMAIN heads
    /\ wt[p] \notin DOMAIN origin
    /\ origin' = (wt[p] :> heads[wt[p]]) @@ origin
    /\ envSteps' = envSteps + 1
    /\ concluded' = {}
    /\ sess' = [s \in Sess |-> IdleSession]
    /\ UNCHANGED <<wt, dirty, heads, assoc, merging, enabled, nStarted>>

\* The operator resolves the conflicts a stopped merge left in p and runs
\* git commit: the merge is concluded and the active branch of p holds the
\* history of the merged branch.
UserConcludeMerge(p) ==
    /\ Quiescent
    /\ p \in DOMAIN merging /\ p \in DOMAIN wt
    /\ wt[p] \in DOMAIN heads /\ merging[p] \in DOMAIN heads
    /\ heads' = [heads EXCEPT ![wt[p]] = @ \cup heads[merging[p]]]
    /\ dirty' = dirty \ {p}
    /\ merging' = RemoveKey(merging, p)
    /\ concluded' = concluded \cup {merging[p]}
    /\ sess' = [s \in Sess |-> IdleSession]
    /\ UNCHANGED <<wt, origin, assoc, enabled, nStarted, envSteps>>

\* ------------------------------------------------------------ new (create)
StartNew(s, cwd, requested) ==
    /\ s \in enabled /\ Quiescent /\ nStarted < MaxSessions
    /\ cwd \in DOMAIN wt
    /\ sess' = [sess EXCEPT ![s] =
                 [IdleSession EXCEPT !.kind = "new", !.pc = "n_read",
                                     !.cwd = cwd, !.name = requested]]
    /\ nStarted' = nStarted + 1
    /\ UNCHANGED <<repo, merging, concluded, enabled, envSteps>>

\* git rev-parse --abbrev-ref HEAD
NewReadBranch(s) ==
    /\ Running(s) /\ sess[s].pc = "n_read"
    /\ \E fault \in BOOLEAN :
         LET r == sess[s] IN
         IF fault \/ ~CwdExists(s)
         THEN sess' = [sess EXCEPT ![s] =
                 Return([r EXCEPT !.log = Logged(s, Entry("rev-parse", r.cwd, "fail"))], 1)]
         ELSE sess' = [sess EXCEPT ![s] =
                 [r EXCEPT !.pc = "n_add", !.currentBranch = wt[r.cwd],
                           !.log = Logged(s, Entry("rev-parse", r.cwd, "ok"))]]
    /\ UNCHANGED <<repo, merging, concluded, enabled, nStarted, envSteps>>

\* variant: the configured default is written instead of the branch read
NewAssocValueDefault(s) == "main"

\* the value written as the Base-Branch Association
NewAssocValue(s) == sess[s].currentBranch

\* git worktree add -b <name> ../<name>: refuses when the branch exists or
\* the path is occupied; the new branch starts at the tip of HEAD
WorktreeAddAllowed(p, b) ==
    /\ b \notin DOMAIN heads
    /\ p \notin DOMAIN wt
    /\ \A q \in DOMAIN wt : ~(Len(q) < Len(p) /\ SubSeq(p, 1, Len(q)) = q)

\* variant: the failure is noted and the association is still written
AfterWorktreeAddFailureContinues(r) == [r EXCEPT !.pc = "n_config"]

\* a failed git worktree add is thrown to the handler, which returns 1
AfterWorktreeAddFailure(r) == Return(r, 1)

NewWorktreeAdd(s) ==
    /\ Running(s) /\ sess[s].pc = "n_add"
    /\ \E fault \in BOOLEAN :
         LET r == sess[s]
             p == SiblingPath(r.cwd, r.name)
         IN
         IF fault \/ ~CwdExists(s) \/ ~WorktreeAddAllowed(p, r.name)
         THEN /\ sess' = [sess EXCEPT ![s] =
                   AfterWorktreeAddFailure(
                       [r EXCEPT !.log = Logged(s, Entry("worktree-add", r.cwd,
                                                         Res(s, fault, "refused")))])]
              /\ UNCHANGED <<wt, heads>>
         ELSE /\ wt' = (p :> r.name) @@ wt
              /\ heads' = (r.name :> heads[wt[r.cwd]]) @@ heads
              /\ sess' = [sess EXCEPT ![s] =
                   [r EXCEPT !.pc = "n_config",
                             !.log = Logged(s, Entry("worktree-add", r.cwd, "ok"))]]
    /\ UNCHANGED <<dirty, origin, assoc, merging, concluded, enabled, nStarted, envSteps>>

\* git config branch.<name>.gitterflow-base-branch <currentBranch>
NewWriteAssoc(s) ==
    /\ Running(s) /\ sess[s].pc = "n_config"
    /\ \E fault \in BOOLEAN :
         LET r == sess[s] IN
         IF fault \/ ~CwdExists(s)
         THEN /\ sess' = [sess EXCEPT ![s] =
                   Return([r EXCEPT !.log = Logged(s, Entry("config-set", r.cwd, "fail"))], 1)]
              /\ UNCHANGED assoc
         ELSE /\ assoc' = (r.name :> NewAssocValue(s)) @@ assoc
              /\ sess' = [sess EXCEPT ![s] =
                   Return([r EXCEPT !.log = Logged(s, Entry("config-set", r.cwd, "ok"))], 0)]
    /\ UNCHANGED <<wt, dirty, heads, origin, merging, concluded, enabled, nStarted, envSteps>>

NewStep(s) == NewReadBranch(s) \/ NewWorktreeAdd(s) \/ NewWriteAssoc(s)

\* ----------------------------------------------------------------- finish
\* detectBaseBranch: the stored association when it names an existing
\* branch, else the first candidate whose tip is the merge-base with the
\* task branch, else the configured default.  cfgFail, verifyFail and
\* candFail are the lookups that throw.

\* variant: the common names are tried before the configured base branch
CandidatesCommonFirst(configBase) == <<"main", "master", "develop", configBase>>

Candidates(configBase) == <<configBase, "main", "master", "develop">>

CandidateMatches(cur, c, candFail) ==
    /\ c \in DOMAIN heads
    /\ c \notin candFail
    /\ cur \in DOMAIN heads
    /\ heads[c] \subseteq heads[cur]

\* variant: the stored association is never used
StoredBaseUsableNever(stored, verifyFail) == FALSE

\* the stored value is returned when it is not empty and show-ref --verify
\* finds the branch it names
StoredBaseUsable(stored, verifyFail) == stored # NoBranch /\ stored \in DOMAIN heads /\ ~verifyFail

\* variant: without a match there is no result
FallbackBaseNone(configBase) == NoBranch

\* the last resort: the configured base branch
FallbackBase(configBase) == configBase

DetectBaseBranch(cur, configBase, cfgFail, verifyFail, candFail) ==
    LET stored == IF ~cfgFail /\ cur \in DOMAIN assoc THEN assoc[cur] ELSE NoBranch
        cands == Candidates(configBase)
        hits == {i \in 1..Len(cands) : CandidateMatches(cur, cands[i], candFail)}
    IN
    IF StoredBaseUsable(stored, verifyFail)
    THEN stored
    ELSE IF hits # {}
         THEN cands[CHOOSE i \in hits : \A j \in hits : i <= j]
         ELSE FallbackBase(configBase)

StartFinish(s, cwd) ==
    /\ s \in enabled /\ Quiescent /\ nStarted < MaxSessions
    /\ cwd \in DOMAIN wt
    /\ sess' = [sess EXCEPT ![s] =
                 [IdleSession EXCEPT !.kind = "finish", !.pc = "f_identify", !.cwd = cwd]]
    /\ nStarted' = nStarted + 1
    /\ UNCHANGED <<repo, merging, concluded, enabled, envSteps>>

\* Step 1: getCurrentBranch, process.cwd()
FinishIdentify(s) ==
    /\ Running(s) /\ sess[s].pc = "f_identify"
    /\ \E fault \in BOOLEAN :
         LET r == sess[s] IN
         IF fault \/ ~CwdExists(s)
         THEN sess' = [sess EXCEPT ![s] =
                 Return([r EXCEPT !.log = Logged(s, Entry("rev-parse", r.cwd, "fail"))], 1)]
         ELSE sess' = [sess EXCEPT ![s] =
                 [r EXCEPT !.pc = "f_detect", !.currentBranch = wt[r.cwd],
                           !.currentWorktreePath = r.cwd,
                           !.log = Logged(s, Entry("rev-parse", r.cwd, "ok"))]]
    /\ UNCHANGED <<repo, merging, concluded, enabled, nStarted, envSteps>>

\* variant: the check is missing
AlreadyOnBaseNever(cur, base) == FALSE

\* Step 2.5: a task branch cannot finish into itself
AlreadyOnBase(cur, base) == cur = base

\* variant: the branch resolved is stored as the association
AssocAfterDetectStored(cur, base) == (cur :> base) @@ assoc

\* detectBaseBranch reads git config and writes nothing
AssocAfterDetect(cur, base) == assoc

\* Step 2 and 2.5: detectBaseBranch, then the check
FinishDetect(s) ==
    /\ Running(s) /\ sess[s].pc = "f_detect"
    /\ \E configBase \in BaseBranchSettings, cfgFail \in BOOLEAN, verifyFail \in BOOLEAN,
          candFail \in SUBSET SharedBranches :
         LET r == sess[s]
             base == DetectBaseBranch(r.currentBranch, configBase, cfgFail, verifyFail, candFail)
             r2 == [r EXCEPT !.baseBranch = base,
                             !.log = Logged(s, Entry("detect", r.cwd,
                                        IF cfgFail \/ verifyFail \/ candFail # {}
                                        THEN "fail" ELSE "ok"))]
         IN
         /\ assoc' = AssocAfterDetect(r.currentBranch, base)
         /\ IF AlreadyOnBase(r.currentBranch, base)
            THEN sess' = [sess EXCEPT ![s] = Return(r2, 1)]
            ELSE sess' = [sess EXCEPT ![s] = [r2 EXCEPT !.pc = "f_add"]]
    /\ UNCHANGED <<wt, dirty, heads, origin, merging, concluded, enabled, nStarted, envSteps>>

\* Step 3, commitUncommittedChanges: git add -A
FinishStage(s) ==
    /\ Running(s) /\ sess[s].pc = "f_add"
    /\ \E fault \in BOOLEAN :
         LET r == sess[s] IN
         IF fault \/ ~CwdExists(s)
         THEN sess' = [sess EXCEPT ![s] =
                 Return([r EXCEPT !.log = Logged(s, Entry("add", r.cwd, "fail"))], 1)]
         ELSE sess' = [sess EXCEPT ![s] =
                 [r EXCEPT !.pc = "f_diff", !.log = Logged(s, Entry("add", r.cwd, "ok"))]]
    /\ UNCHANGED <<repo, merging, concluded, enabled, nStarted, envSteps>>

\* variant: the diff is never taken as empty
DiffIsEmptyNever(p) == FALSE

\* the staged diff of working copy p is empty when p has no modification
DiffIsEmpty(p) == p \notin dirty

\* git diff --cached; an empty diff skips the commit
FinishDiff(s) ==
    /\ Running(s) /\ sess[s].pc = "f_diff"
    /\ \E fault \in BOOLEAN :
         LET r == sess[s] IN
         IF fault \/ ~CwdExists(s)
         THEN sess' = [sess EXCEPT ![s] =
                 Return([r EXCEPT !.log = Logged(s, Entry("diff", r.cwd, "fail"))], 1)]
         ELSE sess' = [sess EXCEPT ![s] =
                 [r EXCEPT !.pc = IF DiffIsEmpty(r.cwd) THEN "f_fetch" ELSE "f_message",
                           !.log = Logged(s, Entry("diff", r.cwd, "ok"))]]
    /\ UNCHANGED <<repo, merging, concluded, enabled, nStarted, envSteps>>

\* generateCommitMessage: throws without a credential or on an API error
FinishMessage(s) ==
    /\ Running(s) /\ sess[s].pc = "f_message"
    /\ \E fault \in BOOLEAN :
         LET r == sess[s] IN
         IF fault
         THEN sess' = [sess EXCEPT ![s] =
                 Return([r EXCEPT !.log = Logged(s, Entry("message", r.cwd, "fail"))], 1)]
         ELSE sess' = [sess EXCEPT ![s] =
                 [r EXCEPT !.pc = "f_commit", !.log = Logged(s, Entry("message", r.cwd, "ok"))]]
    /\ UNCHANGED <<repo, merging, concluded, enabled, nStarted, envSteps>>

\* what a commit in p adds beside the new commit: the history of MERGE_HEAD
\* when p has an unconcluded merge
MergeHeadHistory(p) ==
    IF p \in DOMAIN merging /\ merging[p] \in DOMAIN heads THEN heads[merging[p]] ELSE {}

\* git commit -m <message> --no-verify
FinishCommit(s) ==
    /\ Running(s) /\ sess[s].pc = "f_commit"
    /\ \E fault \in BOOLEAN :
         LET r == sess[s] IN
         IF fault \/ ~CwdExists(s) \/ ~HasFreshCommit
         THEN /\ sess' = [sess EXCEPT ![s] =
                   Return([r EXCEPT !.log = Logged(s, Entry("commit", r.cwd, "fail"))], 1)]
              /\ UNCHANGED <<heads, dirty, merging>>
         ELSE /\ heads' = [heads EXCEPT ![wt[r.cwd]] =
                             @ \cup {FreshCommit} \cup MergeHeadHistory(r.cwd)]
              /\ dirty' = dirty \ {r.cwd}
              /\ merging' = RemoveKey(merging, r.cwd)
              /\ sess' = [sess EXCEPT ![s] =
                   [r EXCEPT !.pc = "f_fetch", !.log = Logged(s, Entry("commit", r.cwd, "ok"))]]
    /\ UNCHANGED <<wt, origin, assoc, concluded, enabled, nStarted, envSteps>>

\* Step 4: git fetch origin
FinishFetch(s) ==
    /\ Running(s) /\ sess[s].pc = "f_fetch"
    /\ \E fault \in BOOLEAN :
         LET r == sess[s] IN
         IF fault \/ ~CwdExists(s)
         THEN sess' = [sess EXCEPT ![s] =
                 Return([r EXCEPT !.log = Logged(s, Entry("fetch", r.cwd, "fail"))], 1)]
         ELSE sess' = [sess EXCEPT ![s] =
                 [r EXCEPT !.pc = "f_checkout", !.log = Logged(s, Entry("fetch", r.cwd, "ok"))]]
    /\ UNCHANGED <<repo, merging, concluded, enabled, nStarted, envSteps>>

\* the failures git checkout can raise: the branch is the active branch of
\* another working copy (fatal, 128), another fatal error (128), or an
\* ordinary error (1)
CheckoutOk == [exitCode |-> 0, text |-> ""]
CheckoutBusy == [exitCode |-> 128, text |-> "already checked out"]
CheckoutFatal == [exitCode |-> 128, text |-> "other"]
CheckoutError == [exitCode |-> 1, text |-> "other"]

\* isAlreadyCheckedOut: exit code 128 or one of the known phrases
IsAlreadyCheckedOut(err) ==
    \/ err.exitCode = 128
    \/ err.text \in {"already checked out", "bereits ausgecheckt", "ist bereits", "bereits in"}

\* variant: the error is swallowed and the session goes on
AfterCheckoutFailureContinues(r) == [r EXCEPT !.pc = "f_pull"]

\* a checkout failure that is not taken as "already checked out" is thrown
\* to the outer handler, which returns 1
AfterCheckoutFailure(r) == Return(r, 1)

\* Step 5: git checkout <baseBranch> in the current working copy
FinishCheckout(s) ==
    /\ Running(s) /\ sess[s].pc = "f_checkout"
    /\ LET r == sess[s]
           outcomes ==
               IF ~CwdExists(s) THEN {CheckoutFatal}
               ELSE IF r.baseBranch \notin DOMAIN heads THEN {CheckoutError}
               ELSE IF ActiveElsewhere(r.baseBranch, r.cwd) THEN {CheckoutBusy}
               ELSE {CheckoutOk, CheckoutFatal, CheckoutError}
       IN
       \E out \in outcomes :
         IF out = CheckoutOk
         THEN /\ wt' = [wt EXCEPT ![r.cwd] = r.baseBranch]
              /\ sess' = [sess EXCEPT ![s] =
                   [r EXCEPT !.pc = "f_pull", !.baseBranchCheckedOut = TRUE,
                             !.log = Logged(s, Entry("checkout", r.cwd, "ok"))]]
         ELSE /\ UNCHANGED wt
              /\ IF IsAlreadyCheckedOut(out)
                 THEN sess' = [sess EXCEPT ![s] =
                        [r EXCEPT !.pc = "f_mainrepo",
                                  !.log = Logged(s, Entry("checkout", r.cwd,
                                             IF out = CheckoutBusy THEN "busy" ELSE "fail"))]]
                 ELSE sess' = [sess EXCEPT ![s] =
                        AfterCheckoutFailure(
                            [r EXCEPT !.log = Logged(s, Entry("checkout", r.cwd,
                                   IF r.baseBranch \notin DOMAIN heads THEN "refused" ELSE "fail"))])]
    /\ UNCHANGED <<dirty, heads, origin, assoc, merging, concluded, enabled, nStarted, envSteps>>

\* getMainRepoDir: the parent of the common git directory; when that lookup
\* throws, the top level of the current working copy unless its .git file
\* can be read; it never throws
GetMainRepoDir(cwd, commonDirFail, gitFileFail) ==
    IF ~commonDirFail THEN Root
    ELSE IF gitFileFail THEN cwd
    ELSE Root

\* variant: the base branch is checked out in the directory of the re-route
WtAfterRerouteCheckout(dir, base) == IF dir \in DOMAIN wt /\ base \in DOMAIN heads /\ ~ActiveElsewhere(base, dir) THEN [wt EXCEPT ![dir] = base] ELSE wt

\* the re-route binds an executor to the directory and checks nothing out
WtAfterReroute(dir, base) == wt

FinishMainRepo(s) ==
    /\ Running(s) /\ sess[s].pc = "f_mainrepo"
    /\ \E commonDirFail \in BOOLEAN, gitFileFail \in BOOLEAN :
         LET r == sess[s]
             dir == GetMainRepoDir(r.cwd, commonDirFail, gitFileFail)
         IN
         /\ wt' = WtAfterReroute(dir, r.baseBranch)
         /\ sess' = [sess EXCEPT ![s] =
              [r EXCEPT !.pc = "f_pull",
                        !.mainRepoDir = dir,
                        !.baseBranchCheckedOut = TRUE,
                        !.log = Logged(s, Entry("main-repo-dir", r.cwd,
                                          IF commonDirFail THEN "fail" ELSE "ok"))]]
    /\ UNCHANGED <<dirty, heads, origin, assoc, merging, concluded, enabled, nStarted, envSteps>>

\* mergeRun = mainRepoRun ?? run: the directory pull, merge and push run in
MergeDir(r) == IF r.mainRepoDir # NoDir THEN r.mainRepoDir ELSE r.cwd

\* Step 6: git pull origin <baseBranch>; every failure is a note
PullOutcomes(dir, base) ==
    IF dir \notin DOMAIN wt \/ base \notin DOMAIN origin \/ wt[dir] \notin DOMAIN heads
         \/ dir \in DOMAIN merging
    THEN {"refused"}
    ELSE {"ok", "fail"}

\* variant: a failed pull ends the session
AfterPullFailureFatal(r) == Return(r, 1)

\* a failed pull is noted and the session goes on to the merge
AfterPullFailure(r) == [r EXCEPT !.pc = "f_merge"]

FinishPull(s) ==
    /\ Running(s) /\ sess[s].pc = "f_pull"
    /\ LET r == sess[s]
           dir == MergeDir(r)
       IN
       IF r.baseBranchCheckedOut
       THEN \E out \in PullOutcomes(dir, r.baseBranch) :
              /\ heads' = IF out = "ok"
                          THEN [heads EXCEPT ![wt[dir]] = @ \cup origin[r.baseBranch]]
                          ELSE heads
              /\ sess' = [sess EXCEPT ![s] =
                   LET r2 == [r EXCEPT !.log = Logged(s, Entry("pull", dir, out))] IN
                   IF out = "ok" THEN [r2 EXCEPT !.pc = "f_merge"] ELSE AfterPullFailure(r2)]
       ELSE /\ sess' = [sess EXCEPT ![s] = [r EXCEPT !.pc = "f_merge"]]
            /\ UNCHANGED heads
    /\ UNCHANGED <<wt, dirty, origin, assoc, merging, concluded, enabled, nStarted, envSteps>>

\* the diagnostic of a failed merge names a conflict or it does not
IsConflictText(text) == text \in {"conflict", "CONFLICT"}

Diverged(a, b) == ~(heads[a] \subseteq heads[b]) /\ ~(heads[b] \subseteq heads[a])

\* git merge <currentBranch> --no-edit merges into the active branch of the
\* directory it runs in
\* outcome: <<what git did, the text of the error message>>
MergeOutcomes(dir, cur) ==
    IF dir \notin DOMAIN wt \/ cur \notin DOMAIN heads \/ wt[dir] \notin DOMAIN heads
    THEN {<<"refused", "other">>}
    ELSE IF dir \in DOMAIN merging
    THEN {<<"refused", "conflict">>, <<"refused", "other">>}
    ELSE IF Diverged(cur, wt[dir])
         THEN {<<"ok", "">>, <<"fail", "other">>, <<"conflict", "CONFLICT">>, <<"conflict", "other">>}
         ELSE {<<"ok", "">>, <<"fail", "other">>}

\* variant: the conflict is reported but the session goes on to publish
AfterMergeConflictContinues(r) == [r EXCEPT !.pc = "f_push"]

\* a reported conflict: the diagnostics are printed and 1 is returned
AfterMergeConflict(r) == Return(r, 1)

\* Step 7: merge; a conflict returns 1, any other failure is thrown to the
\* outer handler, which returns 1
FinishMerge(s) ==
    /\ Running(s) /\ sess[s].pc = "f_merge"
    /\ LET r == sess[s]
           dir == MergeDir(r)
       IN
       \E out \in MergeOutcomes(dir, r.currentBranch) :
         LET r2 == [r EXCEPT !.log = Logged(s, Entry("merge", dir, out[1]))] IN
         /\ heads' = IF out[1] = "ok"
                     THEN [heads EXCEPT ![wt[dir]] = @ \cup heads[r.currentBranch]]
                     ELSE heads
         /\ dirty' = IF out[1] = "conflict" THEN dirty \cup {dir} ELSE dirty
         /\ merging' = IF out[1] = "conflict" THEN (dir :> r.currentBranch) @@ merging
                        ELSE merging
         /\ sess' = [sess EXCEPT ![s] =
              IF out[1] = "ok" THEN [r2 EXCEPT !.pc = "f_push"]
              ELSE IF IsConflictText(out[2])
                   THEN AfterMergeConflict(r2)
                   ELSE Return(r2, 1)]
    /\ UNCHANGED <<wt, origin, assoc, concluded, enabled, nStarted, envSteps>>

\* git push origin <baseBranch>: rejected unless the remote branch is behind
PushOutcomes(dir, base) ==
    IF dir \notin DOMAIN wt \/ base \notin DOMAIN heads
    THEN {"refused"}
    ELSE IF base \in DOMAIN origin /\ ~(origin[base] \subseteq heads[base])
         THEN {"refused"}
         ELSE {"ok", "fail"}

\* variant: the branches are deleted before the working copy is removed
AfterPushDeletesFirst == "f_remote"

\* Step 9 starts with the removal of the working copy
AfterPush == "f_remove1"

\* variant: a failed push is noted and the teardown follows
AfterPushFailureContinues(r) == [r EXCEPT !.pc = AfterPush]

\* a failed push is thrown to the outer handler, which returns 1
AfterPushFailure(r) == Return(r, 1)

\* Step 8: push; a failure is thrown to the outer handler
FinishPush(s) ==
    /\ Running(s) /\ sess[s].pc = "f_push"
    /\ LET r == sess[s]
           dir == MergeDir(r)
       IN
       IF r.baseBranchCheckedOut
       THEN \E out \in PushOutcomes(dir, r.baseBranch) :
              LET r2 == [r EXCEPT !.log = Logged(s, Entry("push", dir, out))] IN
              IF out = "ok"
              THEN /\ origin' = (r.baseBranch :> heads[r.baseBranch]) @@ origin
                   /\ sess' = [sess EXCEPT ![s] = [r2 EXCEPT !.pc = AfterPush]]
              ELSE /\ UNCHANGED origin
                   /\ sess' = [sess EXCEPT ![s] = AfterPushFailure(r2)]
       ELSE /\ sess' = [sess EXCEPT ![s] = [r EXCEPT !.pc = AfterPush]]
            /\ UNCHANGED origin
    /\ UNCHANGED <<wt, dirty, heads, assoc, merging, concluded, enabled, nStarted, envSteps>>

\* git worktree remove <path>: refuses the main working tree, a path that is
\* no working copy and a working copy with modifications
WorktreeRemoveOutcomes(s, path) ==
    IF ~CwdExists(s) THEN {"nocwd"}
    ELSE IF path \in DOMAIN wt /\ path # Root /\ path \notin dirty
         THEN {"ok", "fail"}
         ELSE {"refused"}

\* one removal attempt: on success the remaining attempts are skipped
RemoveAttempt(s, here, path, onFail) ==
    /\ Running(s) /\ sess[s].pc = here
    /\ \E out \in WorktreeRemoveOutcomes(s, path) :
         LET r == sess[s]
             r2 == [r EXCEPT !.log = Logged(s, Entry("worktree-remove", path, out))]
         IN
         IF out = "ok"
         THEN /\ wt' = RemoveKey(wt, path)
              /\ sess' = [sess EXCEPT ![s] =
                   [r2 EXCEPT !.pc = "f_remote", !.worktreeRemoved = TRUE]]
         ELSE /\ UNCHANGED wt
              /\ sess' = [sess EXCEPT ![s] = [r2 EXCEPT !.pc = onFail]]
    /\ UNCHANGED <<dirty, heads, origin, assoc, merging, concluded, enabled, nStarted, envSteps>>

\* Step 9a: the path captured in step 1, then ../<branch>, then
\* <worktrees_dir>/<branch>
\* variant: the conventional path is tried before the captured one
RemovalPathsSiblingFirst(r) == <<SiblingPath(r.cwd, r.currentBranch), r.currentWorktreePath, WorktreesDirPath(r.cwd, r.currentBranch)>>

\* the paths of Try 1, Try 2 and Try 3
RemovalPaths(r) == <<r.currentWorktreePath, SiblingPath(r.cwd, r.currentBranch), WorktreesDirPath(r.cwd, r.currentBranch)>>

FinishRemove1(s) ==
    RemoveAttempt(s, "f_remove1", RemovalPaths(sess[s])[1], "f_remove2")

FinishRemove2(s) ==
    RemoveAttempt(s, "f_remove2", RemovalPaths(sess[s])[2], "f_remove3")

FinishRemove3(s) ==
    RemoveAttempt(s, "f_remove3", RemovalPaths(sess[s])[3], "f_remote")

\* the condition under which the remote task branch is deleted
RemoteDeleteGuard(r, remoteBranchExists, deleteRemoteOnFinish) ==
    remoteBranchExists /\ deleteRemoteOnFinish

\* Step 9b: branchExists(run, currentBranch, true) and the setting
FinishRemoteExists(s) ==
    /\ Running(s) /\ sess[s].pc = "f_remote"
    /\ \E fault \in BOOLEAN, deleteRemoteOnFinish \in DeleteRemoteSettings :
         LET r == sess[s]
             exists == CwdExists(s) /\ ~fault /\ r.currentBranch \in DOMAIN origin
             r2 == [r EXCEPT !.log = Logged(s, Entry("show-ref-remote", r.cwd,
                                 Res(s, fault, IF exists THEN "ok" ELSE "absent")))]
         IN
         sess' = [sess EXCEPT ![s] =
             [r2 EXCEPT !.pc = IF RemoteDeleteGuard(r, exists, deleteRemoteOnFinish)
                               THEN "f_delremote" ELSE "f_local"]]
    /\ UNCHANGED <<repo, merging, concluded, enabled, nStarted, envSteps>>

\* git push origin --delete <currentBranch>; a failure is a warning
FinishDeleteRemote(s) ==
    /\ Running(s) /\ sess[s].pc = "f_delremote"
    /\ \E fault \in BOOLEAN :
         LET r == sess[s]
             ok == CwdExists(s) /\ ~fault /\ r.currentBranch \in DOMAIN origin
         IN
         /\ origin' = IF ok THEN RemoveKey(origin, r.currentBranch) ELSE origin
         /\ sess' = [sess EXCEPT ![s] =
              [r EXCEPT !.pc = "f_local",
                        !.log = Logged(s, Entry("delete-remote", r.cwd,
                                   Res(s, fault, IF ok THEN "ok" ELSE "refused")))]]
    /\ UNCHANGED <<wt, dirty, heads, assoc, merging, concluded, enabled, nStarted, envSteps>>

\* variant: the local branch is deleted whether or not the removal succeeded
LocalDeleteGuardAlways(r) == TRUE

\* the condition under which the local task branch is looked up and deleted
LocalDeleteGuard(r) == r.worktreeRemoved

\* Step 9c: branchExists(run, currentBranch, false)
FinishLocalExists(s) ==
    /\ Running(s) /\ sess[s].pc = "f_local"
    /\ \E fault \in BOOLEAN :
         LET r == sess[s]
             exists == CwdExists(s) /\ ~fault /\ r.currentBranch \in DOMAIN heads
         IN
         IF LocalDeleteGuard(r)
         THEN sess' = [sess EXCEPT ![s] =
                 LET r2 == [r EXCEPT !.log = Logged(s, Entry("show-ref-local", r.cwd,
                                     Res(s, fault, IF exists THEN "ok" ELSE "absent")))]
                 IN IF exists THEN [r2 EXCEPT !.pc = "f_dellocal"] ELSE Return(r2, 0)]
         ELSE sess' = [sess EXCEPT ![s] = Return(r, 0)]
    /\ UNCHANGED <<repo, merging, concluded, enabled, nStarted, envSteps>>

\* git branch -d refuses a branch that is active in a working copy or is not
\* merged into HEAD; it drops the branch's configuration section
BranchDeleteAllowed(s, b) ==
    /\ CwdExists(s)
    /\ b \in DOMAIN heads
    /\ \A q \in DOMAIN wt : wt[q] # b
    /\ wt[sess[s].cwd] \in DOMAIN heads
    /\ heads[b] \subseteq heads[wt[sess[s].cwd]]

\* variant: a failed deletion of the local branch is fatal
ExitAfterLocalDeleteFatal(ok) == IF ok THEN 0 ELSE 1

\* the exit code after the deletion of the local task branch: a failure is
\* a warning
ExitAfterLocalDelete(ok) == 0

\* git branch -d <currentBranch>; a failure is a warning
FinishDeleteLocal(s) ==
    /\ Running(s) /\ sess[s].pc = "f_dellocal"
    /\ \E fault \in BOOLEAN :
         LET r == sess[s]
             ok == ~fault /\ BranchDeleteAllowed(s, r.currentBranch)
             r2 == [r EXCEPT !.log = Logged(s, Entry("delete-local", r.cwd,
                                 Res(s, fault, IF ok THEN "ok" ELSE "refused")))]
         IN
         /\ heads' = IF ok THEN RemoveKey(heads, r.currentBranch) ELSE heads
         /\ assoc' = IF ok THEN RemoveKey(assoc, r.currentBranch) ELSE assoc
         /\ sess' = [sess EXCEPT ![s] =
              Return(r2, ExitAfterLocalDelete(ok))]
    /\ UNCHANGED <<wt, dirty, origin, merging, concluded, enabled, nStarted, envSteps>>

FinishStep(s) ==
    \/ FinishIdentify(s) \/ FinishDetect(s)
    \/ FinishStage(s) \/ FinishDiff(s) \/ FinishMessage(s) \/ FinishCommit(s)
    \/ FinishFetch(s) \/ FinishCheckout(s) \/ FinishMainRepo(s)
    \/ FinishPull(s) \/ FinishMerge(s) \/ FinishPush(s)
    \/ FinishRemove1(s) \/ FinishRemove2(s) \/ FinishRemove3(s)
    \/ FinishRemoteExists(s) \/ FinishDeleteRemote(s)
    \/ FinishLocalExists(s) \/ FinishDeleteLocal(s)

\* ----------------------------------------------------------------- delete
\* variant: the list is consulted first
DeleteStartWithList == "d_list"

\* deleteSingleWorktree starts with the conventional path ../<branchName>
DeleteStart == "d_sibling"

\* the names delete is asked to remove
DeleteNames == TaskNames \cup SharedBranches

StartDelete(s, cwd, branchName) ==
    /\ s \in enabled /\ Quiescent /\ nStarted < MaxSessions
    /\ cwd \in DOMAIN wt
    /\ sess' = [sess EXCEPT ![s] =
                 [IdleSession EXCEPT !.kind = "delete", !.pc = DeleteStart,
                                     !.cwd = cwd, !.name = branchName]]
    /\ nStarted' = nStarted + 1
    /\ UNCHANGED <<repo, merging, concluded, enabled, envSteps>>

\* variant: the branch of the removed working copy is deleted with it
HeadsAfterWorktreeRemoveDropsBranch(path) == RemoveKey(heads, wt[path])

\* the local branches after git worktree remove <path>: the command takes
\* the working copy away and leaves its branch
HeadsAfterWorktreeRemove(path) == heads

\* deleteSingleWorktree: git worktree remove ../<branchName>
DeleteSibling(s) ==
    /\ Running(s) /\ sess[s].pc = "d_sibling"
    /\ LET r == sess[s]
           path == SiblingPath(r.cwd, r.name)
       IN
       \E out \in WorktreeRemoveOutcomes(s, path) :
         LET r2 == [r EXCEPT !.log = Logged(s, Entry("worktree-remove", path, out))] IN
         IF out = "ok"
         THEN /\ wt' = RemoveKey(wt, path)
              /\ heads' = HeadsAfterWorktreeRemove(path)
              /\ sess' = [sess EXCEPT ![s] = Return(r2, 0)]
         ELSE /\ UNCHANGED <<wt, heads>>
              /\ sess' = [sess EXCEPT ![s] = [r2 EXCEPT !.pc = "d_list"]]
    /\ UNCHANGED <<dirty, origin, assoc, merging, concluded, enabled, nStarted, envSteps>>

\* variant: a name that is not found is reported as removed
AfterNotFoundOk(r) == Return(r, 0)

\* no entry for the name: 'Worktree for branch ... not found' is thrown and
\* the handler returns 1
AfterNotFound(r) == Return(r, 1)

\* findWorktree: git worktree list, the entry whose branch is the name; a
\* failure of the list is taken as no entry
DeleteList(s) ==
    /\ Running(s) /\ sess[s].pc = "d_list"
    /\ \E fault \in BOOLEAN :
         LET r == sess[s]
             entries == IF fault \/ ~CwdExists(s) THEN {}
                        ELSE {q \in DOMAIN wt : wt[q] = r.name}
             r2 == [r EXCEPT !.log = Logged(s, Entry("worktree-list", r.cwd,
                                 Res(s, fault, IF entries = {} THEN "absent" ELSE "ok")))]
         IN
         sess' = [sess EXCEPT ![s] =
             IF entries = {} THEN AfterNotFound(r2)
             ELSE [r2 EXCEPT !.pc = "d_exact", !.found = CHOOSE q \in entries : TRUE]]
    /\ UNCHANGED <<repo, merging, concluded, enabled, nStarted, envSteps>>

\* git worktree remove <worktree.path>
DeleteExact(s) ==
    /\ Running(s) /\ sess[s].pc = "d_exact"
    /\ LET r == sess[s] IN
       \E out \in WorktreeRemoveOutcomes(s, r.found) :
         LET r2 == [r EXCEPT !.log = Logged(s, Entry("worktree-remove", r.found, out))] IN
         IF out = "ok"
         THEN /\ wt' = RemoveKey(wt, r.found)
              /\ heads' = HeadsAfterWorktreeRemove(r.found)
              /\ sess' = [sess EXCEPT ![s] = Return(r2, 0)]
         ELSE /\ UNCHANGED <<wt, heads>>
              /\ sess' = [sess EXCEPT ![s] = Return(r2, 1)]
    /\ UNCHANGED <<dirty, origin, assoc, merging, concluded, enabled, nStarted, envSteps>>

\* delete --all
StartDeleteAll(s, cwd) ==
    /\ s \in enabled /\ Quiescent /\ nStarted < MaxSessions
    /\ cwd \in DOMAIN wt
    /\ sess' = [sess EXCEPT ![s] =
                 [IdleSession EXCEPT !.kind = "deleteAll", !.pc = "da_list", !.cwd = cwd]]
    /\ nStarted' = nStarted + 1
    /\ UNCHANGED <<repo, merging, concluded, enabled, envSteps>>

\* deleteAllWorktrees: git worktree list; a failure returns 1
DeleteAllList(s) ==
    /\ Running(s) /\ sess[s].pc = "da_list"
    /\ \E fault \in BOOLEAN :
         LET r == sess[s] IN
         IF fault \/ ~CwdExists(s)
         THEN sess' = [sess EXCEPT ![s] =
                 Return([r EXCEPT !.log = Logged(s, Entry("worktree-list", r.cwd, "fail"))], 1)]
         ELSE sess' = [sess EXCEPT ![s] =
                 [r EXCEPT !.pc = "da_toplevel", !.worktreesToDelete = DOMAIN wt,
                           !.log = Logged(s, Entry("worktree-list", r.cwd, "ok"))]]
    /\ UNCHANGED <<repo, merging, concluded, enabled, nStarted, envSteps>>

\* getMainRepoDir of delete: git rev-parse --show-toplevel answers the top
\* level of the working copy the command runs in; when it throws, the
\* process working directory is taken
DeleteGetMainRepoDir(cwd, fault) == IF fault THEN cwd ELSE cwd

\* the entries left after the one equal to mainRepoPath is taken out; with
\* none left the command returns 0
DeleteAllMainRepo(s) ==
    /\ Running(s) /\ sess[s].pc = "da_toplevel"
    /\ \E fault \in BOOLEAN :
         LET r == sess[s]
             mainRepoPath == DeleteGetMainRepoDir(r.cwd, fault)
             rest == r.worktreesToDelete \ {mainRepoPath}
             r2 == [r EXCEPT !.mainRepoDir = mainRepoPath, !.worktreesToDelete = rest,
                             !.log = Logged(s, Entry("show-toplevel", r.cwd,
                                                     IF fault THEN "fail" ELSE "ok"))]
         IN
         sess' = [sess EXCEPT ![s] =
             IF rest = {} THEN Return(r2, 0) ELSE [r2 EXCEPT !.pc = "da_remove"]]
    /\ UNCHANGED <<repo, merging, concluded, enabled, nStarted, envSteps>>

\* the loop over worktreesToDelete: every entry is tried, failures are
\* counted, and after the last one the command returns 1 when any failed
DeleteAllRemove(s) ==
    /\ Running(s) /\ sess[s].pc = "da_remove"
    /\ LET r == sess[s] IN
       \E path \in r.worktreesToDelete : \E out \in WorktreeRemoveOutcomes(s, path) :
         LET rest == r.worktreesToDelete \ {path}
             fails == IF out = "ok" THEN r.failCount ELSE r.failCount + 1
             r2 == [r EXCEPT !.worktreesToDelete = rest, !.failCount = fails,
                             !.successCount = IF out = "ok" THEN @ + 1 ELSE @,
                             !.log = Logged(s, Entry("worktree-remove", path, out))]
         IN
         /\ wt' = IF out = "ok" THEN RemoveKey(wt, path) ELSE wt
         /\ heads' = IF out = "ok" THEN HeadsAfterWorktreeRemove(path) ELSE heads
         /\ sess' = [sess EXCEPT ![s] =
              IF rest = {} THEN Return(r2, IF fails > 0 THEN 1 ELSE 0) ELSE r2]
    /\ UNCHANGED <<dirty, origin, assoc, merging, concluded, enabled, nStarted, envSteps>>

DeleteStep(s) ==
    \/ DeleteSibling(s) \/ DeleteList(s) \/ DeleteExact(s)
    \/ DeleteAllList(s) \/ DeleteAllMainRepo(s) \/ DeleteAllRemove(s)

EnvStep ==
    \/ \E p \in DOMAIN wt : UserEdit(p)
    \/ \E p \in DOMAIN wt : UserCommit(p)
    \/ \E p \in DOMAIN wt, b \in DOMAIN heads : UserCheckout(p, b)
    \/ \E p \in DOMAIN wt : UserPush(p)
    \/ \E p \in DOMAIN wt : UserConcludeMerge(p)

Next ==
    \/ EnvStep
    \/ \E s \in Sess, p \in DOMAIN wt, n \in TaskNames : StartNew(s, p, n)
    \/ \E s \in Sess : NewStep(s)
    \/ \E s \in Sess, p \in DOMAIN wt : StartFinish(s, p)
    \/ \E s \in Sess : FinishStep(s)

Spec == Init /\ [][Next]_vars

\* ------------------------------------------------- new, then delete
\* The delete command on the repositories that new and the operator make.
DeleteNext ==
    \/ \E p \in DOMAIN wt : UserEdit(p)
    \/ \E p \in DOMAIN wt : UserCommit(p)
    \/ \E p \in DOMAIN wt, b \in DOMAIN heads : UserCheckout(p, b)
    \/ \E p \in DOMAIN wt : UserPush(p)
    \/ \E s \in Sess, p \in DOMAIN wt, n \in TaskNames : StartNew(s, p, n)
    \/ \E s \in Sess : NewStep(s)
    \/ \E s \in Sess, p \in DOMAIN wt, n \in DeleteNames : StartDelete(s, p, n)
    \/ \E s \in Sess, p \in DOMAIN wt : StartDeleteAll(s, p)
    \/ \E s \in Sess : DeleteStep(s)

DeleteSpec == Init /\ [][DeleteNext]_vars

\* -------------------------------------------------- finish run twice
\* The repository after `new a` in the main repository on main and one
\* commit made in the working copy ../a.
RetryInit ==
    /\ wt = (Root :> "main") @@ (<<"a">> :> "a")
    /\ dirty = {}
    /\ heads = ("a" :> {1, 2}) @@ [b \in SharedBranches |-> {1}]
    /\ origin = [b \in SharedBranches |-> {1}]
    /\ assoc = ("a" :> "main")
    /\ merging = << >>
    /\ concluded = {}
    /\ sess = [s \in Sess |-> IdleSession]
    /\ enabled = {1}
    /\ nStarted = 0
    /\ envSteps = 0

RetrySpec == RetryInit /\ [][Next]_vars

\* ------------------------------------------------ detectBaseBranch alone
\* The resolver applied to any repository: the branches that exist, their
\* histories, the branch being resolved and its stored association are
\* drawn; the setting base_branch and the lookups that throw are inputs.
MaxHistory == 2

DetectBranches == {"main", "develop", "release"}
DetectSettings == DetectBranches
Histories == {h \in SUBSET (1..MaxHistory) : 1 \in h}

DetectInit ==
    /\ \E present \in SUBSET DetectBranches :
         heads \in [present \cup {"a"} -> Histories]
    /\ \E cur \in DOMAIN heads :
         /\ wt = (Root :> cur)
         /\ assoc \in {<< >>} \cup {(cur :> b) : b \in DetectBranches}
         /\ sess = [s \in Sess |->
                     IF s = 1
                     THEN [IdleSession EXCEPT !.kind = "detect", !.pc = "d_detect",
                                              !.cwd = Root, !.currentBranch = cur]
                     ELSE IdleSession]
    /\ dirty = {}
    /\ origin = << >>
    /\ merging = << >>
    /\ concluded = {}
    /\ enabled = {1}
    /\ nStarted = 0
    /\ envSteps = 0

\* the lookups that threw, by name: the read of the association, the
\* verification of the stored branch, and the check of a candidate
LookupsFailed(cfgFail, verifyFail, candFail) ==
    (IF cfgFail THEN {"config"} ELSE {})
        \cup (IF verifyFail THEN {"verify"} ELSE {})
        \cup candFail

RunDetectBaseBranch(s) ==
    /\ s \in enabled /\ sess[s].pc = "d_detect"
    /\ \E configBase \in DetectSettings, cfgFail \in BOOLEAN, verifyFail \in BOOLEAN,
          candFail \in SUBSET DetectBranches :
         sess' = [sess EXCEPT ![s] =
             [@ EXCEPT !.pc = "done",
                       !.configBaseBranch = configBase,
                       !.lookupFailed = LookupsFailed(cfgFail, verifyFail, candFail),
                       !.baseBranch = DetectBaseBranch(sess[s].currentBranch, configBase,
                                                       cfgFail, verifyFail, candFail)]]
    /\ UNCHANGED <<repo, merging, concluded, enabled, nStarted, envSteps>>

DetectNext == \E s \in Sess : RunDetectBaseBranch(s)

DetectSpec == DetectInit /\ [][DetectNext]_vars

\* ------------------------------------------------- two finish at once
\* Two finish processes started before either has issued a command, for the
\* tasks a and feature/x made from main.  Session 1 finishes a, session 2
\* finishes feature/x.  Branch a holds a commit and is published; the
\* working copy of feature/x holds modifications.
ConcLayouts ==
    {[wt |-> (Root :> "main") @@ (<<"a">> :> "a") @@ (<<"feature", "x">> :> "feature/x"),
      cwd |-> <<(<<"a">>), <<"feature", "x">>>>],
     [wt |-> (Root :> "develop") @@ (<<"a">> :> "a") @@ (<<"feature", "x">> :> "feature/x"),
      cwd |-> <<(<<"a">>), <<"feature", "x">>>>],
     [wt |-> (Root :> "a") @@ (<<"a">> :> "develop") @@ (<<"feature", "x">> :> "feature/x"),
      cwd |-> <<Root, <<"feature", "x">>>>]}

ConcInit ==
    /\ \E layout \in ConcLayouts :
         /\ wt = layout.wt
         /\ sess = [s \in Sess |->
                      [IdleSession EXCEPT !.kind = "finish", !.pc = "f_identify",
                                          !.cwd = layout.cwd[s]]]
    /\ dirty = {<<"feature", "x">>}
    /\ heads = ("a" :> {1, 2}) @@ ("feature/x" :> {1}) @@ [b \in SharedBranches |-> {1}]
    /\ origin = ("a" :> {1, 2}) @@ [b \in SharedBranches |-> {1}]
    /\ assoc = ("a" :> "main") @@ ("feature/x" :> "main")
    /\ merging = << >>
    /\ concluded = {}
    /\ enabled = Sess
    /\ nStarted = 2
    /\ envSteps = 0

ConcNext == \E s \in Sess : FinishStep(s)

ConcSpec == ConcInit /\ [][ConcNext]_vars

\* ----------------------------------------------------------------- runCli
\* One invocation of the command line.  A word of the command line is the
\* sequence of its characters; the first word, which selects the command,
\* is kept as a string.
MaxArgs == 2

\* the value of a variable that was never assigned
Undefined == <<"undefined">>

RECURSIVE Str(_)
Str(cs) == IF cs = << >> THEN "" ELSE Head(cs) \o Str(Tail(cs))

IsWhitespace(c) == c \in {" ", "\t", "\n"}

RECURSIVE TrimStart(_)
TrimStart(cs) ==
    IF cs # << >> /\ IsWhitespace(Head(cs)) THEN TrimStart(Tail(cs)) ELSE cs

RECURSIVE TrimEnd(_)
TrimEnd(cs) ==
    IF cs # << >> /\ IsWhitespace(cs[Len(cs)]) THEN TrimEnd(SubSeq(cs, 1, Len(cs) - 1)) ELSE cs

\* String.prototype.trim
Trim(cs) == TrimEnd(TrimStart(cs))

\* arg.startsWith("-")
StartsWithDash(cs) == cs # << >> /\ Head(cs) = "-"

\* a value that `!x` and `x &&` take as true
Truthy(x) == x # Undefined /\ x # << >>

AllFlagLong == <<"-", "-", "a", "l", "l">>
AllFlagShort == <<"-", "a">>
TaskFlagLong == <<"-", "-", "t", "a", "s", "k">>
TaskFlagShort == <<"-", "t">>

\* the words drawn as arguments
ArgWords ==
    {<< >>, <<" ">>, <<"a">>, <<" ", "a", " ">>, AllFlagLong, AllFlagShort, TaskFlagShort}

RECURSIVE ArgListsOf(_)
ArgListsOf(n) ==
    IF n = 0 THEN {<< >>}
    ELSE LET shorter == ArgListsOf(n - 1) IN
         shorter \cup {Append(l, w) : l \in {x \in shorter : Len(x) = n - 1}, w \in ArgWords}

ArgLists == ArgListsOf(MaxArgs)

\* the first words drawn: the names and aliases that have a model, a word
\* that is no command, the empty word, and a word every object inherits
CommandWords ==
    {"help", "--help", "-h", "new", "list", "delete", "remove", "unknown", "", "constructor"}

RawArgLists == {<< >>} \cup {<<k>> \o a : k \in CommandWords, a \in ArgLists}

\* commandMap after the loop over the aliases
CommandMap ==
    [k \in {"help", "init", "new", "list", "delete", "snap"} |-> k]
        @@ [k \in {"--help", "-h"} |-> "help"] @@ ("remove" :> "delete")

\* the properties an object literal inherits from Object.prototype
ObjectPrototypeKeys ==
    {"constructor", "toString", "valueOf", "hasOwnProperty", "isPrototypeOf",
     "propertyIsEnumerable", "toLocaleString", "__proto__"}

NoCommand == "<undefined>"
NotACommand == "<inherited>"

\* commandMap[commandKey]
CommandMapLookup(k) ==
    IF k \in DOMAIN CommandMap THEN CommandMap[k]
    ELSE IF k \in ObjectPrototypeKeys THEN NotACommand
    ELSE NoCommand

\* parseArgs of new: --task and -t take the next word; the branch is the
\* first word that does not start with "-" once no branch is held
RECURSIVE ParseArgsFrom(_, _, _, _)
ParseArgsFrom(args, i, branch, task) ==
    IF i > Len(args) THEN [branch |-> branch, task |-> task]
    ELSE IF args[i] \in {TaskFlagLong, TaskFlagShort}
    THEN ParseArgsFrom(args, i + 2, branch,
                       IF i + 1 <= Len(args) THEN args[i + 1] ELSE Undefined)
    ELSE IF ~StartsWithDash(args[i])
    THEN ParseArgsFrom(args, i + 1, IF ~Truthy(branch) THEN args[i] ELSE branch, task)
    ELSE ParseArgsFrom(args, i + 1, branch, task)

ParseArgs(args) == ParseArgsFrom(args, 1, Undefined, Undefined)

\* generateRandomBranchName: the vocabulary, and the values drawn for
\* Math.floor(Math.random() * n)
Adjectives ==
    <<"quick", "bright", "clever", "happy", "swift", "bold", "calm", "wise", "proud", "cool">>
Nouns ==
    <<"fox", "wolf", "bear", "eagle", "tiger", "lion", "hawk", "owl", "falcon", "dragon">>
RandomDraws ==
    {[adjective |-> a, noun |-> n, randomNum |-> k] :
        a \in {0, Len(Adjectives) - 1}, n \in {0, Len(Nouns) - 1}, k \in {0, 999}}

GenerateRandomBranchName(d) ==
    "worktree-" \o Adjectives[d.adjective + 1] \o "-" \o Nouns[d.noun + 1]
        \o "-" \o ToString(d.randomNum)

\* variant: the name is used as it was typed
TrimmedBranchUntrimmed(branch, d) == IF Truthy(branch) /\ Trim(branch) # << >> THEN Str(branch) ELSE GenerateRandomBranchName(d)

\* trimmedBranch of newCommand.run
TrimmedBranch(branch, d) == IF Truthy(branch) /\ Trim(branch) # << >> THEN Str(Trim(branch)) ELSE GenerateRandomBranchName(d)

\* variant: only the long flag is recognised
HasAllFlagLongOnly(args) == \E i \in DOMAIN args : args[i] = AllFlagLong

\* hasAllFlag of deleteCommand.run
HasAllFlag(args) == \E i \in DOMAIN args : args[i] \in {AllFlagLong, AllFlagShort}

\* args.find((arg) => arg !== "--all" && arg !== "-a")
BranchArg(args) ==
    LET hits == {i \in DOMAIN args : args[i] \notin {AllFlagLong, AllFlagShort}} IN
    IF hits = {} THEN Undefined ELSE args[CHOOSE i \in hits : \A j \in hits : i <= j]

\* newCommand.run up to its first command
NewCommandRun(r, args, d) ==
    LET branch == ParseArgs(args).branch
        synthesized == ~(Truthy(branch) /\ Trim(branch) # << >>)
    IN
    [r EXCEPT !.kind = "new", !.pc = "n_read", !.name = TrimmedBranch(branch, d),
              !.generated = IF synthesized
                            THEN <<Adjectives[d.adjective + 1], Nouns[d.noun + 1], d.randomNum>>
                            ELSE << >>]

\* deleteCommand.run up to its first command
DeleteCommandRun(r, args) ==
    IF HasAllFlag(args)
    THEN [r EXCEPT !.kind = "deleteAll", !.pc = "da_list"]
    ELSE IF BranchArg(args) = Undefined \/ Trim(BranchArg(args)) = << >>
    THEN Return([r EXCEPT !.kind = "delete", !.printed = <<"usage">>], 1)
    ELSE [r EXCEPT !.kind = "delete", !.pc = DeleteStart, !.name = Str(Trim(BranchArg(args)))]

\* runHelpWithMetadata: the help message and the footer
HelpRun(r) == Return([r EXCEPT !.kind = "help", !.printed = Append(@, "help")], 0)

\* runCli: the first word selects the command; a word that the map has no
\* value for is an error; a value that is no command has no run, and the
\* call throws out of runCli, which then returns no exit code
RunCli(s) ==
    /\ s \in enabled /\ sess[s].pc = "cli"
    /\ \E d \in RandomDraws :
         LET rawArgs == sess[s].rawArgs
             commandKey == IF rawArgs = << >> THEN "help" ELSE rawArgs[1]
             commandArgs == IF rawArgs = << >> THEN << >> ELSE Tail(rawArgs)
             command == CommandMapLookup(commandKey)
             r == [sess[s] EXCEPT !.args = commandArgs]
         IN
         sess' = [sess EXCEPT ![s] =
             IF command = NoCommand
             THEN [HelpRun([r EXCEPT !.printed = <<"error">>]) EXCEPT !.kind = "unknown", !.exitCode = 1]
             ELSE IF command = "help" THEN HelpRun(r)
             ELSE IF command = NotACommand THEN [r EXCEPT !.kind = "threw", !.pc = "done"]
             ELSE IF command = "new" THEN NewCommandRun(r, commandArgs, d)
             ELSE IF command = "delete" THEN DeleteCommandRun(r, commandArgs)
             ELSE [r EXCEPT !.kind = "list", !.pc = "l_list"]]
    /\ UNCHANGED <<repo, merging, concluded, enabled, nStarted, envSteps>>

\* listCommand.run: git worktree list, then the selected working copy is
\* opened in a terminal; a failure of either returns 1
ListRun(s) ==
    /\ Running(s) /\ sess[s].pc = "l_list"
    /\ \E fault \in BOOLEAN, spawnFail \in BOOLEAN :
         LET r == sess[s]
             failed == fault \/ ~CwdExists(s)
             r2 == [r EXCEPT !.log = Logged(s, Entry("worktree-list", r.cwd,
                                                     IF failed THEN "fail" ELSE "ok"))]
         IN
         sess' = [sess EXCEPT ![s] = Return(r2, IF failed \/ spawnFail THEN 1 ELSE 0)]
    /\ UNCHANGED <<repo, merging, concluded, enabled, nStarted, envSteps>>

\* the repositories an invocation is drawn in: the initial one, the one
\* after `new a`, and one whose working copy of branch a is not at ../a
CliRepos ==
    {[wt |-> (Root :> "main"),
      heads |-> [b \in SharedBranches |-> {1}], assoc |-> << >>],
     [wt |-> (Root :> "main") @@ (<<"a">> :> "a"),
      heads |-> ("a" :> {1}) @@ [b \in SharedBranches |-> {1}], assoc |-> ("a" :> "main")],
     [wt |-> (Root :> "main") @@ (<<"b">> :> "a"),
      heads |-> ("a" :> {1}) @@ [b \in SharedBranches |-> {1}], assoc |-> << >>]}

CliInit ==
    /\ \E rp \in CliRepos : wt = rp.wt /\ heads = rp.heads /\ assoc = rp.assoc
    /\ dirty = {}
    /\ origin = [b \in SharedBranches |-> {1}]
    /\ merging = << >>
    /\ concluded = {}
    /\ \E cwd \in DOMAIN wt, rawArgs \in RawArgLists :
         sess = [s \in Sess |->
                   IF s = 1
                   THEN [IdleSession EXCEPT !.kind = "cli", !.pc = "cli",
                                            !.cwd = cwd, !.rawArgs = rawArgs]
                   ELSE IdleSession]
    /\ enabled = {1}
    /\ nStarted = 0
    /\ envSteps = 0

CliNext ==
    \/ \E s \in Sess : RunCli(s)
    \/ \E s \in Sess : NewStep(s)
    \/ \E s \in Sess : DeleteStep(s)
    \/ \E s \in Sess : ListRun(s)

CliSpec == CliInit /\ [][CliNext]_vars

\* ------------------------------------------------------ createDirExecutor
\* The executor of the re-route saves process.cwd(), enters the directory
\* with process.chdir, awaits the command and restores the saved directory
\* in a finally block.  While the command is awaited other processes run.
\* The field cwd is the working directory of the process; enteredAt is the
\* length of the log when the executor entered its directory, -1 outside.

\* the commands that go through mergeRun while it is the executor of the
\* re-route
UsesDirExecutor(r) ==
    /\ r.kind = "finish" /\ r.pc \in {"f_pull", "f_merge", "f_push"}
    /\ r.mainRepoDir # NoDir /\ r.baseBranchCheckedOut

ExecOp(r) == CASE r.pc = "f_pull" -> "pull" [] r.pc = "f_merge" -> "merge" [] OTHER -> "push"

\* what the handler does with a rejection of the executor that names no
\* conflict: a note for the pull, return 1 for the merge and the push
AfterExecutorRejects(r, op) ==
    IF op = "pull" THEN AfterPullFailure(r) ELSE Return(r, 1)

\* originalCwd = process.cwd(); process.chdir(dir): either can throw, and
\* then the command is not run and the finally block leaves the process
\* where it is
ExecEnter(s) ==
    /\ Running(s) /\ UsesDirExecutor(sess[s]) /\ sess[s].enteredAt = -1
    /\ \E fault \in BOOLEAN :
         LET r == sess[s]
             dir == r.mainRepoDir
         IN
         IF ~CwdExists(s) \/ dir \notin DOMAIN wt \/ fault
         THEN sess' = [sess EXCEPT ![s] =
                 AfterExecutorRejects(
                     [r EXCEPT !.log = Logged(s, Entry(ExecOp(r), dir,
                                          IF ~CwdExists(s) THEN "nocwd" ELSE "noentry"))],
                     ExecOp(r))]
         ELSE sess' = [sess EXCEPT ![s] =
                 [r EXCEPT !.originalCwd = r.cwd, !.cwd = dir, !.enteredAt = Len(r.log)]]
    /\ UNCHANGED <<repo, merging, concluded, enabled, nStarted, envSteps>>

\* await baseExecutor(...): the command runs in the directory entered
ExecRun(s) ==
    /\ sess[s].enteredAt = Len(sess[s].log)
    /\ FinishPull(s) \/ FinishMerge(s) \/ FinishPush(s)

\* finally: process.chdir(originalCwd), which throws when that directory is gone
RestoredCwd(r) == IF r.originalCwd \in DOMAIN wt THEN r.originalCwd ELSE r.cwd

\* the finally block; when the restore throws, the executor rejects whatever
\* the command did
ExecLeave(s) ==
    /\ s \in enabled /\ sess[s].enteredAt # -1 /\ Len(sess[s].log) = sess[s].enteredAt + 1
    /\ LET r == sess[s]
           r2 == [r EXCEPT !.cwd = RestoredCwd(r), !.enteredAt = -1]
       IN
       sess' = [sess EXCEPT ![s] =
           IF r.originalCwd \in DOMAIN wt THEN r2
           ELSE AfterExecutorRejects(r2, r.log[Len(r.log)].op)]
    /\ UNCHANGED <<repo, merging, concluded, enabled, nStarted, envSteps>>

\* the steps of finish that do not go through the executor of the re-route
ExecOther(s) ==
    /\ sess[s].enteredAt = -1 /\ ~UsesDirExecutor(sess[s])
    /\ FinishStep(s)

\* two finish processes at their first command: the tasks a and feature/x in
\* their own working copies beside the main repository on main, or task a
\* in the main repository while ../a holds feature/x and a third working
\* copy holds main
ExecLayouts ==
    {[wt |-> (Root :> "main") @@ (<<"a">> :> "a") @@ (<<"feature", "x">> :> "feature/x"),
      cwd |-> <<(<<"a">>), <<"feature", "x">>>>],
     [wt |-> (Root :> "a") @@ (<<"a">> :> "feature/x") @@ (<<"feature", "x">> :> "main"),
      cwd |-> <<Root, (<<"a">>)>>]}

ExecInit ==
    /\ \E layout \in ExecLayouts :
         /\ wt = layout.wt
         /\ sess = [s \in Sess |->
                      [IdleSession EXCEPT !.kind = "finish", !.pc = "f_identify",
                                          !.cwd = layout.cwd[s]]]
         /\ dirty = {layout.cwd[2]}
    /\ heads = ("a" :> {1}) @@ ("feature/x" :> {1}) @@ [b \in SharedBranches |-> {1}]
    /\ origin = ("a" :> {1}) @@ [b \in SharedBranches |-> {1}]
    /\ assoc = ("a" :> "main") @@ ("feature/x" :> "main")
    /\ merging = << >>
    /\ concluded = {}
    /\ enabled = Sess
    /\ nStarted = 2
    /\ envSteps = 0

ExecNext ==
    \/ \E s \in Sess : ExecEnter(s)
    \/ \E s \in Sess : ExecRun(s)
    \/ \E s \in Sess : ExecLeave(s)
    \/ \E s \in Sess : ExecOther(s)

ExecSpec == ExecInit /\ [][ExecNext]_vars

\* ------------------------------------------------------------------- snap
\* Texts are sequences of characters, as for the arguments of runCli.
Null == <<"null">>

\* the value p.isCancel recognises
CancelSymbol == <<"<cancel>">>

DefaultMessage == <<"chore: update code">>

\* args.includes("--no-confirm")
NoConfirm(args) == \E i \in DOMAIN args : args[i] = "--no-confirm"

SnapArgLists ==
    {<< >>, <<"--no-confirm">>, <<"x">>, <<"x", "--no-confirm">>, <<"--no-confirmed">>}

\* what git diff --cached prints for working copy p
DiffTexts(p) == IF p \in dirty THEN {<<"d">>, <<"\n", "d", "\n">>} ELSE {<< >>}

\* !diff || diff.trim().length === 0
NoChanges(diff) == ~Truthy(diff) \/ Len(Trim(diff)) = 0

\* generateCommitMessage: throws without OPENROUTER_API_KEY, when the
\* request fails and when the response is not ok; else the content of the
\* first choice, when there is one
ProviderContents == {Undefined, << >>, <<" ">>, <<"m">>, <<" ", "m", " ">>}
ProviderOutcomes ==
    {[kind |-> k, content |-> Undefined] : k \in {"nokey", "network", "apierror"}}
        \cup {[kind |-> "ok", content |-> c] : c \in ProviderContents}

\* data.choices?.[0]?.message?.content?.trim() || "chore: update code"
GenerateCommitMessage(content) ==
    IF content # Undefined /\ Truthy(Trim(content)) THEN Trim(content) ELSE DefaultMessage

\* the answers of p.select and p.text
SelectAnswers == {<<"yes">>, <<"edit">>, <<"cancel">>, CancelSymbol}
TextAnswers == {CancelSymbol, Undefined, << >>, <<" ">>, <<"e">>, <<" ", "e", " ">>}

\* variant: a cancelled prompt falls back to the generated message
PromptCommitMessageIgnoresCancel(generated, action, edited) == IF action # <<"edit">> \/ edited \in {CancelSymbol, Undefined} \/ ~Truthy(Trim(edited)) THEN generated ELSE Trim(edited)

\* promptCommitMessage: null when cancelled, the generated message on yes, the edited text, or the generated message when the edit is blank
PromptCommitMessage(generated, action, edited) == IF action \in {CancelSymbol, <<"cancel">>} THEN Null ELSE IF action = <<"yes">> THEN generated ELSE IF edited = CancelSymbol THEN Null ELSE IF edited # Undefined /\ Truthy(Trim(edited)) THEN Trim(edited) ELSE generated

\* git add -A
SnapStage(s) ==
    /\ Running(s) /\ sess[s].pc = "s_add"
    /\ \E fault \in BOOLEAN :
         LET r == sess[s] IN
         IF fault \/ ~CwdExists(s)
         THEN sess' = [sess EXCEPT ![s] =
                 Return([r EXCEPT !.log = Logged(s, Entry("add", r.cwd, "fail"))], 1)]
         ELSE sess' = [sess EXCEPT ![s] =
                 [r EXCEPT !.pc = "s_diff", !.log = Logged(s, Entry("add", r.cwd, "ok"))]]
    /\ UNCHANGED <<repo, merging, concluded, enabled, nStarted, envSteps>>

\* git diff --cached; without changes the command returns 0
SnapDiff(s) ==
    /\ Running(s) /\ sess[s].pc = "s_diff"
    /\ \E fault \in BOOLEAN, diff \in DiffTexts(sess[s].cwd) :
         LET r == sess[s] IN
         IF fault \/ ~CwdExists(s)
         THEN sess' = [sess EXCEPT ![s] =
                 Return([r EXCEPT !.log = Logged(s, Entry("diff", r.cwd, "fail"))], 1)]
         ELSE LET r2 == [r EXCEPT !.log = Logged(s, Entry("diff", r.cwd, "ok")),
                                  !.printed = IF NoChanges(diff) THEN <<"no changes">> ELSE @]
              IN sess' = [sess EXCEPT ![s] =
                     IF NoChanges(diff) THEN Return(r2, 0) ELSE [r2 EXCEPT !.pc = "s_message"]]
    /\ UNCHANGED <<repo, merging, concluded, enabled, nStarted, envSteps>>

\* generateCommitMessage; with --no-confirm the generated message is the
\* commit message
SnapMessage(s) ==
    /\ Running(s) /\ sess[s].pc = "s_message"
    /\ \E out \in ProviderOutcomes :
         LET r == sess[s] IN
         IF out.kind # "ok"
         THEN sess' = [sess EXCEPT ![s] =
                 Return([r EXCEPT !.log = Logged(s, Entry("message", r.cwd,
                            IF out.kind = "nokey" THEN "nokey" ELSE "fail"))], 1)]
         ELSE LET g == GenerateCommitMessage(out.content)
                  r2 == [r EXCEPT !.generated = g,
                                  !.log = Logged(s, Entry("message", r.cwd, "ok"))]
              IN sess' = [sess EXCEPT ![s] =
                     IF NoConfirm(r.args)
                     THEN [r2 EXCEPT !.pc = "s_commit", !.message = g]
                     ELSE [r2 EXCEPT !.pc = "s_confirm"]]
    /\ UNCHANGED <<repo, merging, concluded, enabled, nStarted, envSteps>>

\* promptCommitMessage; without a message the commit is cancelled and the
\* command returns 0
SnapConfirm(s) ==
    /\ Running(s) /\ sess[s].pc = "s_confirm"
    /\ \E action \in SelectAnswers, edited \in TextAnswers :
         LET r == sess[s]
             m == PromptCommitMessage(r.generated, action, edited)
             r2 == [r EXCEPT !.message = m,
                             !.log = Logged(s, Entry("confirm", r.cwd,
                                        IF action \in {CancelSymbol, <<"cancel">>}
                                             \/ (action = <<"edit">> /\ edited = CancelSymbol)
                                        THEN "cancel" ELSE action[1]))]
         IN
         sess' = [sess EXCEPT ![s] =
             IF m = Null \/ ~Truthy(m) THEN Return(r2, 0) ELSE [r2 EXCEPT !.pc = "s_commit"]]
    /\ UNCHANGED <<repo, merging, concluded, enabled, nStarted, envSteps>>

\* git commit -m <commitMessage> --no-verify
SnapCommit(s) ==
    /\ Running(s) /\ sess[s].pc = "s_commit"
    /\ \E fault \in BOOLEAN :
         LET r == sess[s] IN
         IF fault \/ ~CwdExists(s) \/ ~HasFreshCommit
         THEN /\ sess' = [sess EXCEPT ![s] =
                   Return([r EXCEPT !.log = Logged(s, Entry("commit", r.cwd, "fail"))], 1)]
              /\ UNCHANGED <<heads, dirty, merging>>
         ELSE /\ heads' = [heads EXCEPT ![wt[r.cwd]] =
                             @ \cup {FreshCommit} \cup MergeHeadHistory(r.cwd)]
              /\ dirty' = dirty \ {r.cwd}
              /\ merging' = RemoveKey(merging, r.cwd)
              /\ sess' = [sess EXCEPT ![s] =
                   Return([r EXCEPT !.log = Logged(s, Entry("commit", r.cwd, "ok"))], 0)]
    /\ UNCHANGED <<wt, origin, assoc, concluded, enabled, nStarted, envSteps>>

\* one invocation of snap in a working copy, with or without modifications
SnapInit ==
    /\ \E rp \in CliRepos : wt = rp.wt /\ heads = rp.heads /\ assoc = rp.assoc
    /\ dirty \in SUBSET DOMAIN wt
    /\ origin = [b \in SharedBranches |-> {1}]
    /\ merging = << >>
    /\ concluded = {}
    /\ \E cwd \in DOMAIN wt, args \in SnapArgLists :
         sess = [s \in Sess |->
                   IF s = 1
                   THEN [IdleSession EXCEPT !.kind = "snap", !.pc = "s_add",
                                            !.cwd = cwd, !.args = args]
                   ELSE IdleSession]
    /\ enabled = {1}
    /\ nStarted = 0
    /\ envSteps = 0

SnapNext ==
    \/ \E s \in Sess : SnapStage(s)
    \/ \E s \in Sess : SnapDiff(s)
    \/ \E s \in Sess : SnapMessage(s)
    \/ \E s \in Sess : SnapConfirm(s)
    \/ \E s \in Sess : SnapCommit(s)

SnapSpec == SnapInit /\ [][SnapNext]_vars

\* ------------------------------------------- the handlers as coroutines
\* A handler is an async function: a call of the executor starts a git
\* command, which is in flight until its promise settles; await suspends
\* the handler until then.  The call sites of each handler in the order they
\* are reached, with 0 for the return of the handler.
FlightKinds == {"new", "finish", "delete", "deleteAll"}

CallSites ==
    [new |-> <<"rev-parse", "worktree-add", "config-set">>,
     finish |-> <<"rev-parse", "config-get", "show-ref-stored", "show-ref-candidate",
                  "merge-base", "rev-parse-candidate", "add", "diff", "commit", "fetch",
                  "checkout", "common-dir", "show-toplevel", "pull", "merge", "push",
                  "worktree-remove-1", "worktree-remove-2", "worktree-remove-3",
                  "show-ref-remote", "delete-remote", "show-ref-local", "delete-local">>,
     delete |-> <<"worktree-remove-sibling", "worktree-list", "worktree-remove-exact">>,
     deleteAll |-> <<"worktree-list", "show-toplevel", "worktree-remove">>]

SiteOf(kind, op) == CHOOSE i \in DOMAIN CallSites[kind] : CallSites[kind][i] = op

\* the sites at which a loop body starts: the candidates of detectBaseBranch
\* and the working copies of deleteAllWorktrees
LoopHead(kind) ==
    IF kind = "finish" THEN SiteOf("finish", "show-ref-candidate")
    ELSE IF kind = "deleteAll" THEN SiteOf("deleteAll", "worktree-remove")
    ELSE 0

\* the candidates are [configBaseBranch, "main", "master", "develop"]
CandidateCount == Len(<<"configBaseBranch", "main", "master", "develop">>)

\* the iterations a loop can make: one per candidate, one per working copy
\* of the list other than the one filtered out
LoopCounts(kind) ==
    IF kind = "finish" THEN {CandidateCount}
    ELSE IF kind = "deleteAll" THEN 1..Cardinality(TaskNames)
    ELSE {0}

\* the call sites control can reach next once the command of site i has
\* settled, whatever its result
AfterSite(kind, i) ==
    LET F(op) == SiteOf("finish", op) IN
    IF kind = "new" THEN IF i < 3 THEN {i + 1, 0} ELSE {0}
    ELSE IF kind = "delete" THEN IF i < 3 THEN {i + 1, 0} ELSE {0}
    ELSE IF kind = "deleteAll" THEN IF i < 3 THEN {i + 1, 0} ELSE {3, 0}
    ELSE CASE i = F("rev-parse") -> {F("config-get"), 0}
           [] i = F("config-get") -> {F("show-ref-stored"), F("show-ref-candidate")}
           [] i = F("show-ref-stored") -> {F("show-ref-candidate"), F("add"), 0}
           [] i = F("show-ref-candidate") -> {F("merge-base"), F("show-ref-candidate"), F("add"), 0}
           [] i = F("merge-base") -> {F("rev-parse-candidate"), F("show-ref-candidate"), F("add"), 0}
           [] i = F("rev-parse-candidate") -> {F("show-ref-candidate"), F("add"), 0}
           [] i = F("add") -> {F("diff"), 0}
           [] i = F("diff") -> {F("commit"), F("fetch"), 0}
           [] i = F("commit") -> {F("fetch"), 0}
           [] i = F("fetch") -> {F("checkout"), 0}
           [] i = F("checkout") -> {F("pull"), F("common-dir"), 0}
           [] i = F("common-dir") -> {F("pull"), F("show-toplevel")}
           [] i = F("show-toplevel") -> {F("pull")}
           [] i = F("pull") -> {F("merge")}
           [] i = F("merge") -> {F("push"), 0}
           [] i = F("push") -> {F("worktree-remove-1"), 0}
           [] i = F("worktree-remove-1") -> {F("show-ref-remote"), F("worktree-remove-2")}
           [] i = F("worktree-remove-2") -> {F("show-ref-remote"), F("worktree-remove-3")}
           [] i = F("worktree-remove-3") -> {F("show-ref-remote")}
           [] i = F("show-ref-remote") -> {F("delete-remote"), F("show-ref-local"), 0}
           [] i = F("delete-remote") -> {F("show-ref-local"), 0}
           [] i = F("show-ref-local") -> {F("delete-local"), 0}
           [] OTHER -> {0}

\* variant: the removals of the loop are started without waiting for them
AwaitedButRemovalLoop(kind, i) == ~(kind = "deleteAll" /\ i = 3)

\* every call site awaits the command it starts before the next statement
Awaited(kind, i) == TRUE

\* the handler moves to site j (0: it returns); entering a loop body takes
\* one of the iterations that are left
MoveTo(r, j) ==
    IF j = 0 THEN [r EXCEPT !.pc = "returned", !.site = 0]
    ELSE [r EXCEPT !.pc = "call", !.site = j,
                   !.left = IF j = LoopHead(r.kind) THEN @ - 1 ELSE @]

Reachable(r, j) == j = LoopHead(r.kind) => r.left > 0

Moves(r) == {j \in AfterSite(r.kind, r.site) : j # 0 => Reachable(r, j)}

FlightStart(s, kind) ==
    /\ s \in enabled /\ sess[s].pc = "idle"
    /\ \E n \in LoopCounts(kind) :
         sess' = [sess EXCEPT ![s] =
             [IdleSession EXCEPT !.kind = kind, !.pc = "call", !.site = 1, !.left = n]]
    /\ UNCHANGED <<repo, merging, concluded, enabled, nStarted, envSteps>>

\* the handler calls the executor: the command is in flight; at an awaiting
\* site the handler is suspended, else it runs on to its next call site
IssueOp(s) ==
    /\ sess[s].pc = "call"
    /\ LET r == [sess[s] EXCEPT !.issued = @ + 1, !.inFlight = @ + 1] IN
       IF Awaited(r.kind, r.site)
       THEN sess' = [sess EXCEPT ![s] = [r EXCEPT !.pc = "await"]]
       ELSE \E j \in Moves(r) \cup {0} : sess' = [sess EXCEPT ![s] = MoveTo(r, j)]
    /\ UNCHANGED <<repo, merging, concluded, enabled, nStarted, envSteps>>

\* a command in flight completes or fails; the handler suspended on it
\* resumes at one of the sites that follow
SettleOp(s) ==
    /\ sess[s].inFlight > 0
    /\ LET r == [sess[s] EXCEPT !.inFlight = @ - 1] IN
       \/ /\ r.pc = "await"
          /\ \E j \in Moves(r) \cup {0} : sess' = [sess EXCEPT ![s] = MoveTo(r, j)]
       \/ /\ r.pc # "await" \/ r.inFlight > 0
          /\ sess' = [sess EXCEPT ![s] = r]
    /\ UNCHANGED <<repo, merging, concluded, enabled, nStarted, envSteps>>

FlightInit ==
    /\ InitRepo
    /\ merging = << >>
    /\ concluded = {}
    /\ sess = [s \in Sess |-> IdleSession]
    /\ enabled = {1}
    /\ nStarted = 0
    /\ envSteps = 0

FlightNext ==
    \/ \E s \in Sess, kind \in FlightKinds : FlightStart(s, kind)
    \/ \E s \in Sess : IssueOp(s)
    \/ \E s \in Sess : SettleOp(s)

FlightSpec == FlightInit /\ [][FlightNext]_vars

\* ------------------------------------------------------------- properties
Done(s, k) == sess[s].kind = k /\ sess[s].pc = "done"
LogOf(s) == sess[s].log
Idx(s) == DOMAIN sess[s].log
Issued(s, o) == \E i \in Idx(s) : LogOf(s)[i].op = o
IssuedWith(s, o, res) == \E i \in Idx(s) : LogOf(s)[i].op = o /\ LogOf(s)[i].res = res

BranchDeletions == {"delete-remote", "delete-local"}
ReadOnlyOps == {"rev-parse", "detect"}

\* no command of the session failed for a reason outside the repository
NoEngineFault(s) == \A i \in Idx(s) : LogOf(s)[i].res # "fail"

\* the removal attempts before position i
RemovalsBefore(s, i) == {j \in Idx(s) : j < i /\ LogOf(s)[j].op = "worktree-remove"}
RemovedBefore(s, i) == \E j \in RemovalsBefore(s, i) : LogOf(s)[j].res = "ok"

\* C1: every merge a finish session issues runs in a working copy whose
\* active branch is the session's base branch (stated for the sessions in
\* which no command failed for a reason outside the repository).
C1_MergeRunsOnBaseBranch ==
    \A s \in Sess : \A i \in Idx(s) :
        (NoEngineFault(s) /\ LogOf(s)[i].op = "merge") =>
            LogOf(s)[i].on = sess[s].baseBranch

\* C2: a branch deletion (remote or local) is issued only after the removal
\* attempts are over (one succeeded or all three failed), and no removal is
\* attempted after a branch deletion.
C2_DeletionAfterRemovalAttempts ==
    \A s \in Sess : \A i \in Idx(s) :
        LogOf(s)[i].op \in BranchDeletions =>
            /\ RemovedBefore(s, i) \/ Cardinality(RemovalsBefore(s, i)) = 3
            /\ \A j \in Idx(s) : j > i => LogOf(s)[j].op # "worktree-remove"

C2_Witness ==
    \E s \in Sess : Done(s, "finish") /\ Issued(s, "worktree-remove")
        /\ \E i \in Idx(s) : LogOf(s)[i].op \in BranchDeletions

\* C3: the deletion of the remote task branch is issued only after a
\* successful removal of the working copy.
C3_RemoteDeletionOnlyAfterRemoval ==
    \A s \in Sess : \A i \in Idx(s) :
        LogOf(s)[i].op = "delete-remote" => RemovedBefore(s, i)

\* C4: the deletion of the local task branch is issued only after a
\* successful removal of the working copy, and a session in which that
\* deletion failed still exits 0.
C4_LocalDeletionOnlyAfterRemoval ==
    \A s \in Sess :
        /\ \A i \in Idx(s) : LogOf(s)[i].op = "delete-local" => RemovedBefore(s, i)
        /\ (Done(s, "finish") /\ Issued(s, "delete-local")
              /\ ~IssuedWith(s, "delete-local", "ok")) => sess[s].exitCode = 0

C4_Witness ==
    \E s \in Sess : Done(s, "finish") /\ sess[s].exitCode = 0
        /\ Issued(s, "delete-local") /\ ~IssuedWith(s, "delete-local", "ok")

\* C5: a finish session whose merge ended in a conflict exits 1 without
\* push, removal or branch deletion; both branches and the working copy
\* still exist and the task branch is not merged.
C5_ConflictHalts ==
    \A s \in Sess :
        (Done(s, "finish") /\ IssuedWith(s, "merge", "conflict")) =>
            /\ sess[s].exitCode = 1
            /\ \A i \in Idx(s) :
                 LogOf(s)[i].op \notin {"push", "worktree-remove"} \cup BranchDeletions
            /\ sess[s].currentBranch \in DOMAIN heads
            /\ sess[s].baseBranch \in DOMAIN heads
            /\ sess[s].currentWorktreePath \in DOMAIN wt
            /\ \A i \in Idx(s) : LogOf(s)[i].op = "merge" =>
                 ~(heads[sess[s].currentBranch] \subseteq heads[LogOf(s)[i].on])

C5_Witness ==
    \E s \in Sess : Done(s, "finish") /\ sess[s].exitCode = 1
        /\ \E i \in Idx(s) : LogOf(s)[i].op = "merge" /\ LogOf(s)[i].res = "conflict"
                               /\ i = Len(LogOf(s))

\* C6: a finish session whose resolved base branch is its task branch exits
\* 1 and has issued nothing but the reads of steps 1 and 2.
C6_OnBaseBranchNoMutation ==
    \A s \in Sess :
        (Done(s, "finish") /\ sess[s].baseBranch # NoBranch
            /\ sess[s].currentBranch = sess[s].baseBranch) =>
            /\ sess[s].exitCode = 1
            /\ \A i \in Idx(s) : LogOf(s)[i].op \in ReadOnlyOps

C6_Witness ==
    \E s \in Sess : Done(s, "finish") /\ sess[s].exitCode = 1
        /\ sess[s].baseBranch # NoBranch /\ sess[s].currentBranch = sess[s].baseBranch
        /\ Issued(s, "detect")

\* C7: when the checkout failed because the base branch is active in another
\* working copy and pull, merge and push then succeeded, the session exits
\* 0, the three commands ran in a working copy that has the base branch
\* active, and the remote base branch holds the task branch's commits
\* (stated for the sessions in which no command failed for a reason outside
\* the repository).
C7_BusyBaseRerouted ==
    \A s \in Sess :
        (Done(s, "finish") /\ NoEngineFault(s) /\ IssuedWith(s, "checkout", "busy")
            /\ IssuedWith(s, "pull", "ok") /\ IssuedWith(s, "merge", "ok")
            /\ IssuedWith(s, "push", "ok")) =>
            /\ sess[s].exitCode = 0
            /\ \A i \in Idx(s) : LogOf(s)[i].op \in {"pull", "merge", "push"} =>
                 LogOf(s)[i].on = sess[s].baseBranch
            /\ sess[s].baseBranch \in DOMAIN origin
            /\ sess[s].currentBranch \in DOMAIN heads =>
                 heads[sess[s].currentBranch] \subseteq origin[sess[s].baseBranch]

C9_CreateThenFinish ==
    \A s \in Sess :
        (Done(s, "finish") /\ sess[s].cwd = <<"feature", "x">>
            /\ sess[s].currentBranch = "feature/x" /\ sess[s].baseBranch = "main"
            /\ wt[Root] = "main" /\ Issued(s, "push") /\ NoEngineFault(s)) =>
            /\ "feature/x" \in DOMAIN heads => heads["feature/x"] \subseteq heads["main"]
            /\ <<"feature", "x">> \notin DOMAIN wt
            /\ "feature/x" \notin DOMAIN heads

\* C10: after a successful create the association of the new branch is the
\* branch that was active in the invoking working copy when the working
\* copy was added, and the working copy is registered at ../<name> on the
\* new branch.
C10_CreateRecordsBase ==
    \A s \in Sess :
        (Done(s, "new") /\ sess[s].exitCode = 0) =>
            /\ sess[s].name \in DOMAIN assoc
            /\ \A i \in Idx(s) : LogOf(s)[i].op = "worktree-add" =>
                 assoc[sess[s].name] = LogOf(s)[i].on
            /\ SiblingPath(sess[s].cwd, sess[s].name) \in DOMAIN wt
            /\ wt[SiblingPath(sess[s].cwd, sess[s].name)] = sess[s].name

C10_Witness ==
    \E s \in Sess : Done(s, "new") /\ sess[s].exitCode = 0
        /\ sess[s].name \in DOMAIN assoc /\ assoc[sess[s].name] # "main"

\* C11: create is atomic for its caller: when it returns 1, the branch and
\* the working copy this call added do not exist and no association is left
\* for the name; when it returns 0, the branch, the working copy and the
\* association all exist.
C11_CreateAtomic ==
    \A s \in Sess :
        Done(s, "new") =>
            LET name == sess[s].name
                path == SiblingPath(sess[s].cwd, sess[s].name)
            IN
            /\ (sess[s].exitCode = 1 /\ IssuedWith(s, "worktree-add", "ok")) =>
                 (name \notin DOMAIN heads /\ path \notin DOMAIN wt
                    /\ name \notin DOMAIN assoc)
            /\ sess[s].exitCode = 0 =>
                 (name \in DOMAIN heads /\ path \in DOMAIN wt
                    /\ name \in DOMAIN assoc)

\* the association of the branch names a branch that exists
UsableAssociation(cur) == cur \in DOMAIN assoc /\ assoc[cur] \in DOMAIN heads

\* the association was read and verified without a failure
AssociationSeen(s) ==
    /\ UsableAssociation(sess[s].currentBranch)
    /\ sess[s].lookupFailed \cap {"config", "verify"} = {}

\* candidate c exists, its check did not fail, and its tip is the common
\* ancestor of c and the task branch
GoodCandidate(s, c) ==
    /\ c \in DOMAIN heads
    /\ c \notin sess[s].lookupFailed
    /\ heads[c] \subseteq heads[sess[s].currentBranch]

\* configuredDefault, main, master, develop, in that order
CandidateOrder(s) == <<sess[s].configBaseBranch, "main", "master", "develop">>

\* b is the first good candidate, or the configured default when none is
HeuristicResult(s, b) ==
    LET cands == CandidateOrder(s) IN
    \/ \E i \in DOMAIN cands :
         /\ b = cands[i] /\ GoodCandidate(s, b)
         /\ \A j \in DOMAIN cands : j < i => ~GoodCandidate(s, cands[j])
    \/ /\ b = sess[s].configBaseBranch
       /\ \A i \in DOMAIN cands : ~GoodCandidate(s, cands[i])

C13_ResolveNeverFails ==
    \A s \in Sess :
        Done(s, "detect") =>
            /\ sess[s].baseBranch # NoBranch
            /\ (~AssociationSeen(s)
                  /\ \A i \in DOMAIN CandidateOrder(s) : ~GoodCandidate(s, CandidateOrder(s)[i]))
                 => sess[s].baseBranch = sess[s].configBaseBranch

C13_Witness ==
    \E s \in Sess : Done(s, "detect")
        /\ {"config", "main", "develop", "release"} \subseteq sess[s].lookupFailed
        /\ UsableAssociation(sess[s].currentBranch)
        /\ sess[s].baseBranch = sess[s].configBaseBranch
        /\ sess[s].baseBranch \notin DOMAIN heads

\* C14: without a usable association detectBaseBranch returns the first of
\* configuredDefault, main, master, develop that exists and whose tip is
\* the common ancestor with the task branch; a candidate that is missing or
\* whose check fails is passed over and the later ones are still examined.
C14_CandidateOrder ==
    \A s \in Sess :
        (Done(s, "detect") /\ ~AssociationSeen(s)) =>
            /\ HeuristicResult(s, sess[s].baseBranch)
            /\ \A i \in DOMAIN CandidateOrder(s) :
                 (GoodCandidate(s, CandidateOrder(s)[i])
                    /\ \A j \in DOMAIN CandidateOrder(s) :
                         j < i => ~GoodCandidate(s, CandidateOrder(s)[j]))
                 => sess[s].baseBranch = CandidateOrder(s)[i]

C14_Witness ==
    \E s \in Sess : Done(s, "detect") /\ ~AssociationSeen(s)
        /\ sess[s].configBaseBranch = "release"
        /\ "release" \notin DOMAIN heads
        /\ "main" \in DOMAIN heads /\ "main" \in sess[s].lookupFailed
        /\ heads["main"] \subseteq heads[sess[s].currentBranch]
        /\ sess[s].baseBranch = "develop"

\* C15: after a merge stopped on a conflict and the operator concluded it,
\* a finish run in the working copy of the task branch, with no engine
\* failure, has nothing to commit, merges and pushes, exits 0, leaves the
\* base branch published, and leaves neither the working copy nor the
\* local task branch.
C15_RetryAfterConflict ==
    \A s \in Sess : \A b \in concluded :
        (Done(s, "finish") /\ sess[s].cwd = SiblingPath(Root, b) /\ NoEngineFault(s)) =>
            /\ sess[s].exitCode = 0
            /\ ~Issued(s, "commit")
            /\ IssuedWith(s, "merge", "ok") /\ IssuedWith(s, "push", "ok")
            /\ sess[s].baseBranch \in DOMAIN origin
            /\ sess[s].baseBranch \in DOMAIN heads
            /\ origin[sess[s].baseBranch] = heads[sess[s].baseBranch]
            /\ SiblingPath(Root, b) \notin DOMAIN wt
            /\ b \notin DOMAIN heads

\* the checkout of step 5 has just failed in session s
CheckoutJustFailed(s) ==
    /\ sess[s].pc = "f_checkout" /\ sess'[s].pc # "f_checkout"
    /\ sess'[s].log[Len(sess'[s].log)].op = "checkout"
    /\ sess'[s].log[Len(sess'[s].log)].res # "ok"

\* C16: when the checkout of the base branch fails and no working copy has
\* the base branch active, the session ends at once with exit code 1, so no
\* pull, merge, push or teardown follows.
C16_NoIntegrationContextFails ==
    [][\A s \in Sess :
         (CheckoutJustFailed(s) /\ \A q \in DOMAIN wt : wt[q] # sess[s].baseBranch) =>
             (sess'[s].pc = "done" /\ sess'[s].exitCode = 1)]_vars

\* the pull of session s at position i did not succeed
PullFailedAt(s, i) == LogOf(s)[i].op = "pull" /\ LogOf(s)[i].res # "ok"

\* C17: after a pull that failed for whatever reason the session goes on:
\* the next command is the merge, issued in the same directory as the pull,
\* and the session exits 1 only if the merge or the push did not succeed.
C17_PullFailureIsWarning ==
    \A s \in Sess : \A i \in Idx(s) :
        PullFailedAt(s, i) =>
            /\ sess[s].pc = "done" => i < Len(LogOf(s))
            /\ i < Len(LogOf(s)) =>
                 (LogOf(s)[i + 1].op = "merge" /\ LogOf(s)[i + 1].dir = LogOf(s)[i].dir)
            /\ (sess[s].pc = "done" /\ sess[s].exitCode = 1) =>
                 ~(IssuedWith(s, "merge", "ok") /\ IssuedWith(s, "push", "ok"))

C17_Witness ==
    \E s \in Sess : Done(s, "finish") /\ sess[s].exitCode = 0
        /\ \E i \in Idx(s) : PullFailedAt(s, i) /\ LogOf(s)[i].dir \in dirty
              /\ LogOf(s)[i].dir # sess[s].cwd
              /\ LogOf(s)[i + 1].op = "merge" /\ LogOf(s)[i + 1].res = "ok"

\* C18: delete <name> first issues the removal of ../<name>; the list is
\* consulted only after that removal failed; a second removal is issued
\* only for the path of the listed entry whose branch is the name; a
\* removal that succeeds is the last command and the exit code is 0.
C18_DeleteSiblingThenExact ==
    \A s \in Sess :
        sess[s].kind = "delete" =>
            LET L == LogOf(s) IN
            /\ Len(L) >= 1 =>
                 (L[1].op = "worktree-remove"
                    /\ L[1].dir = SiblingPath(sess[s].cwd, sess[s].name))
            /\ \A i \in Idx(s) : L[i].op = "worktree-list" => (i = 2 /\ L[1].res # "ok")
            /\ \A i \in Idx(s) : (i > 1 /\ L[i].op = "worktree-remove") =>
                 (i = 3 /\ L[2].op = "worktree-list" /\ L[2].res = "ok"
                    /\ L[i].on = sess[s].name)
            /\ \A i \in Idx(s) : (L[i].op = "worktree-remove" /\ L[i].res = "ok") =>
                 (i = Len(L) /\ sess[s].pc = "done" /\ sess[s].exitCode = 0)

C18_Witness ==
    \E s \in Sess : Done(s, "delete") /\ sess[s].exitCode = 0
        /\ Len(LogOf(s)) = 3 /\ LogOf(s)[3].res = "ok"
        /\ LogOf(s)[3].dir # LogOf(s)[1].dir

\* the log l of a delete session shows that nothing was found for the name:
\* no removal succeeded and the list failed or held no entry for it
NothingFound(l) ==
    /\ \A i \in DOMAIN l : ~(l[i].op = "worktree-remove" /\ l[i].res = "ok")
    /\ \E i \in DOMAIN l : l[i].op = "worktree-list" /\ l[i].res # "ok"

\* C19: a delete <name> session that finds nothing for the name changes
\* neither a working copy nor a branch in any of its steps and returns 1.
C19_DeleteMissing ==
    [][\A s \in Sess :
         (sess'[s] # sess[s] /\ sess'[s].kind = "delete") =>
             /\ (\A i \in DOMAIN sess'[s].log :
                    ~(sess'[s].log[i].op = "worktree-remove" /\ sess'[s].log[i].res = "ok"))
                  => UNCHANGED <<wt, dirty, heads, origin, assoc, merging>>
             /\ (NothingFound(sess'[s].log) /\ sess'[s].pc = "done")
                  => sess'[s].exitCode = 1]_vars

C19_Witness ==
    \E s \in Sess : Done(s, "delete") /\ sess[s].exitCode = 1
        /\ NothingFound(LogOf(s)) /\ IssuedWith(s, "worktree-list", "absent")
        /\ Cardinality(DOMAIN wt) > 1

\* C20: delete --all issues no removal for the main repository, from
\* whichever working copy it is run.
C20_DeleteAllSparesRoot ==
    \A s \in Sess : \A i \in Idx(s) :
        (sess[s].kind = "deleteAll" /\ LogOf(s)[i].op = "worktree-remove") =>
            LogOf(s)[i].dir # Root

\* the removals a session issued, and those that succeeded
RemovalsOf(s) == {i \in Idx(s) : LogOf(s)[i].op = "worktree-remove"}
RemovedBy(s) == {LogOf(s)[i].dir : i \in {j \in RemovalsOf(s) : LogOf(s)[j].res = "ok"}}

\* the working copies the list of a delete --all session held: those still
\* registered and those the session has removed
ListedTo(s) == DOMAIN wt \cup RemovedBy(s)

\* C21: a delete --all session whose list failed exits 1 without a removal;
\* otherwise it issues exactly one removal for every listed working copy
\* other than the main repository, whatever the earlier removals gave, it
\* exits 1 exactly when a removal failed, and the two counts add up to the
\* number of removals.
C21_DeleteAllEveryOnce ==
    \A s \in Sess :
        Done(s, "deleteAll") =>
            IF IssuedWith(s, "worktree-list", "fail")
            THEN sess[s].exitCode = 1 /\ RemovalsOf(s) = {}
            ELSE /\ {LogOf(s)[i].dir : i \in RemovalsOf(s)} = ListedTo(s) \ {Root}
                 /\ \A i, j \in RemovalsOf(s) : LogOf(s)[i].dir = LogOf(s)[j].dir => i = j
                 /\ sess[s].exitCode = 1 <=>
                      (\E i \in RemovalsOf(s) : LogOf(s)[i].res # "ok")
                 /\ sess[s].successCount + sess[s].failCount = Cardinality(RemovalsOf(s))

\* C22: no step of a delete or delete --all session changes a local branch,
\* a branch of the remote or an association, and none issues a branch
\* deletion; after delete <name> has returned 0 the branch <name> exists.
C22_DeleteKeepsBranches ==
    [][\A s \in Sess :
         (sess'[s] # sess[s] /\ sess'[s].kind \in {"delete", "deleteAll"}) =>
             /\ UNCHANGED <<heads, origin, assoc>>
             /\ \A i \in DOMAIN sess'[s].log : sess'[s].log[i].op \notin BranchDeletions
             /\ (sess'[s].kind = "delete" /\ sess'[s].pc = "done" /\ sess'[s].exitCode = 0)
                  => sess'[s].name \in DOMAIN heads']_vars

C22_Witness ==
    \E s \in Sess : Done(s, "delete") /\ sess[s].exitCode = 0
        /\ sess[s].name \in DOMAIN heads
        /\ Cardinality(heads[sess[s].name]) > 1
        /\ \A q \in DOMAIN wt : wt[q] # sess[s].name

\* session s has been dispatched to the command named by one of words
Dispatched(s, words) ==
    /\ sess[s].pc # "cli" /\ sess[s].rawArgs # << >>
    /\ sess[s].rawArgs[1] \in words

\* the arguments of delete that are no --all flag, in order
NonFlagArgs(args) == SelectSeq(args, LAMBDA a : a # AllFlagLong /\ a # AllFlagShort)

\* no branch name is given: no word other than the flags, or the first such
\* word is empty or whitespace only
BlankBranchName(args) ==
    NonFlagArgs(args) = << >> \/ \A i \in DOMAIN NonFlagArgs(args)[1] : IsWhitespace(NonFlagArgs(args)[1][i])

AllFlagGiven(args) == \E i \in DOMAIN args : args[i] = AllFlagLong \/ args[i] = AllFlagShort

\* C23: delete without --all or -a and without a branch name (none, empty or
\* whitespace only) has returned 1 with the usage error and without a
\* command; with --all or -a it is delete --all whatever else is given.
C23_DeleteArguments ==
    \A s \in Sess :
        Dispatched(s, {"delete", "remove"}) =>
            LET args == Tail(sess[s].rawArgs) IN
            /\ (~AllFlagGiven(args) /\ BlankBranchName(args)) =>
                 (sess[s].pc = "done" /\ sess[s].exitCode = 1
                    /\ sess[s].printed = <<"usage">> /\ LogOf(s) = << >>)
            /\ AllFlagGiven(args) =>
                 (sess[s].kind = "deleteAll" /\ sess[s].printed = << >>
                    /\ \A i \in Idx(s) : i = 1 => LogOf(s)[i].op = "worktree-list")
            /\ (~AllFlagGiven(args) /\ ~BlankBranchName(args)) =>
                 (sess[s].kind = "delete" /\ sess[s].printed = << >>)

C23_Witness ==
    \E s \in Sess : Dispatched(s, {"remove"}) /\ Done(s, "deleteAll")
        /\ Len(sess[s].rawArgs) = 3
        /\ sess[s].rawArgs[2] = <<"a">> /\ sess[s].rawArgs[3] = AllFlagShort
        /\ IssuedWith(s, "worktree-remove", "ok")

\* C24: new never ends without a command.  When parseArgs finds no branch,
\* or one that is empty or whitespace only, the name is worktree-<adjective>-
\* <noun>-<number> with words of the vocabulary and a number in 0..999;
\* otherwise it is the branch without its surrounding whitespace.  The name
\* is the new branch and the last segment(s) of the path ../<name>.
C24_NewName ==
    \A s \in Sess :
        Dispatched(s, {"new"}) =>
            LET branch == ParseArgs(Tail(sess[s].rawArgs)).branch
                g == sess[s].generated
            IN
            /\ sess[s].kind = "new"
            /\ sess[s].pc = "done" => (LogOf(s) # << >> /\ LogOf(s)[1].op = "rev-parse")
            /\ IF branch = Undefined \/ \A i \in DOMAIN branch : IsWhitespace(branch[i])
               THEN /\ Len(g) = 3
                    /\ \E i \in DOMAIN Adjectives : g[1] = Adjectives[i]
                    /\ \E i \in DOMAIN Nouns : g[2] = Nouns[i]
                    /\ g[3] \in 0..999
                    /\ sess[s].name = "worktree-" \o g[1] \o "-" \o g[2] \o "-" \o ToString(g[3])
               ELSE /\ g = << >>
                    /\ \E k \in DOMAIN branch, l \in DOMAIN branch :
                         /\ sess[s].name = Str(SubSeq(branch, k, l))
                         /\ ~IsWhitespace(branch[k]) /\ ~IsWhitespace(branch[l])
                         /\ \A i \in DOMAIN branch : (i < k \/ i > l) => IsWhitespace(branch[i])
            /\ IssuedWith(s, "worktree-add", "ok") =>
                 (/\ sess[s].name \in DOMAIN heads
                  /\ SiblingPath(sess[s].cwd, sess[s].name) \in DOMAIN wt
                  /\ wt[SiblingPath(sess[s].cwd, sess[s].name)] = sess[s].name)

C24_Witness ==
    \E s \in Sess : Dispatched(s, {"new"}) /\ Done(s, "new") /\ sess[s].exitCode = 0
        /\ Tail(sess[s].rawArgs) = <<<<" ">>, <<" ", "a", " ">>>>
        /\ sess[s].name = "worktree-cool-dragon-999"
        /\ <<"worktree-cool-dragon-999">> \in DOMAIN wt

\* the names and the aliases of the commands
KnownCommandWords == {"help", "init", "new", "list", "delete", "snap", "--help", "-h", "remove"}
HelpWords == {"help", "--help", "-h"}

\* C25: runCli with no argument or a help alias has printed the help and
\* returned 0; with a first word that is no command name or alias it has
\* reported the error, printed the help and returned 1; otherwise it runs
\* the command of that name or alias with the remaining words.
C25_Dispatch ==
    \A s \in Sess :
        (sess[s].kind # "none" /\ sess[s].pc # "cli") =>
            LET rawArgs == sess[s].rawArgs IN
            IF rawArgs = << >> \/ rawArgs[1] \in HelpWords
            THEN sess[s].pc = "done" /\ sess[s].exitCode = 0 /\ sess[s].printed = <<"help">>
            ELSE IF rawArgs[1] \notin KnownCommandWords
            THEN sess[s].pc = "done" /\ sess[s].exitCode = 1
                   /\ sess[s].printed = <<"error", "help">>
            ELSE /\ sess[s].args = Tail(rawArgs)
                 /\ rawArgs[1] = "new" => sess[s].kind = "new"
                 /\ rawArgs[1] = "list" => sess[s].kind = "list"
                 /\ rawArgs[1] \in {"delete", "remove"} => sess[s].kind \in {"delete", "deleteAll"}
                 /\ sess[s].pc = "done" => sess[s].exitCode \in {0, 1}

TeardownOps == {"worktree-remove", "delete-remote", "delete-local"}

\* the push (git push origin <baseBranch>) has succeeded in the log l
\* before position i
PushedBefore(l, i) ==
    \E j \in DOMAIN l : j < i /\ l[j].op = "push" /\ l[j].res = "ok"

\* C26: a finish session issues a removal or a branch deletion only after
\* its push of the base branch has succeeded, and no step of a session whose
\* push has not succeeded takes away a working copy, a local branch or a
\* branch of the remote.
C26_TeardownAfterPush ==
    [][\A s \in Sess :
         (sess'[s] # sess[s] /\ sess'[s].kind = "finish") =>
             LET l == sess'[s].log IN
             /\ \A i \in DOMAIN l :
                  l[i].op \in TeardownOps => PushedBefore(l, i)
             /\ (\A i \in DOMAIN l : ~(l[i].op = "push" /\ l[i].res = "ok")) =>
                  (/\ DOMAIN wt' = DOMAIN wt
                   /\ DOMAIN heads \subseteq DOMAIN heads'
                   /\ DOMAIN origin \subseteq DOMAIN origin'
                   /\ \A b \in DOMAIN heads : heads[b] \subseteq heads'[b]
                   /\ \A b \in DOMAIN origin : origin[b] = origin'[b])]_vars

C26_Witness ==
    \E s \in Sess : Done(s, "finish") /\ sess[s].exitCode = 1
        /\ IssuedWith(s, "merge", "ok") /\ Issued(s, "push")
        /\ sess[s].currentWorktreePath # Root
        /\ sess[s].currentWorktreePath \in DOMAIN wt
        /\ sess[s].currentBranch \in DOMAIN heads
        /\ sess[s].currentBranch \in DOMAIN origin

\* the positions of the removals in the log of s, in order
RemovalSeq(s) == SelectSeq(LogOf(s), LAMBDA e : e.op = "worktree-remove")

\* C27: the removals of a finish session are, in order, for the path
\* captured in step 1, for ../<task branch> and for <worktrees_dir>/<task
\* branch>; each follows only failed ones, so at most one succeeds and it
\* is the last; a session in which all three failed goes on to the branch
\* lookups and returns 0.
C27_RemovalOrder ==
    \A s \in Sess :
        sess[s].kind = "finish" =>
            LET R == RemovalSeq(s) IN
            /\ Len(R) <= 3
            /\ Len(R) >= 1 => R[1].dir = sess[s].currentWorktreePath
            /\ Len(R) >= 2 => R[2].dir = Parent(sess[s].cwd) \o Segs(sess[s].currentBranch)
            /\ Len(R) >= 3 =>
                 R[3].dir = Parent(sess[s].cwd) \o <<"worktrees">> \o Segs(sess[s].currentBranch)
            /\ \A i \in DOMAIN R : i < Len(R) => R[i].res # "ok"
            /\ (Len(R) = 3 /\ R[3].res # "ok" /\ sess[s].pc = "done") =>
                 (sess[s].exitCode = 0 /\ Issued(s, "show-ref-remote"))
            /\ (Len(R) >= 1 /\ R[Len(R)].res # "ok" /\ sess[s].pc = "done") => Len(R) = 3

C27_Witness ==
    \E s \in Sess : Done(s, "finish") /\ sess[s].exitCode = 0
        /\ Len(RemovalSeq(s)) = 3
        /\ \A i \in 1..3 : RemovalSeq(s)[i].res # "ok"
        /\ RemovalSeq(s)[1].dir # RemovalSeq(s)[2].dir

AfterFlushOps ==
    {"fetch", "checkout", "main-repo-dir", "pull", "merge", "push", "show-ref-remote",
     "show-ref-local"} \cup TeardownOps

\* C28: in a finish session the staging comes before the diff; the message
\* provider is called and the commit is issued only when the working copy
\* has modifications, the provider after a diff that succeeded and the
\* commit after a message that was obtained; when the provider or the
\* commit fails the session ends there with exit code 1, so nothing of the
\* later steps is issued.
C28_Flush ==
    [][\A s \in Sess :
         (sess'[s] # sess[s] /\ sess'[s].kind = "finish") =>
             LET l == sess'[s].log IN
             /\ \A i \in DOMAIN l :
                  /\ l[i].op = "diff" => (i > 1 /\ l[i - 1].op = "add" /\ l[i - 1].res = "ok")
                  /\ l[i].op = "message" => (i > 1 /\ l[i - 1].op = "diff" /\ l[i - 1].res = "ok")
                  /\ l[i].op = "commit" => (i > 1 /\ l[i - 1].op = "message" /\ l[i - 1].res = "ok")
                  /\ (l[i].op \in {"message", "commit"} /\ l[i].res # "ok") =>
                       (i = Len(l) /\ sess'[s].pc = "done" /\ sess'[s].exitCode = 1)
                  /\ l[i].op \in AfterFlushOps =>
                       (\E j \in DOMAIN l : j < i /\ l[j].op = "diff" /\ l[j].res = "ok")
             /\ (Len(l) > Len(sess[s].log) /\ l[Len(l)].op \in {"message", "commit"}) =>
                  sess[s].cwd \in dirty]_vars

C28_Witness ==
    \E s \in Sess : Done(s, "finish") /\ sess[s].exitCode = 1
        /\ LogOf(s)[Len(LogOf(s))].op = "commit"
        /\ sess[s].cwd \in dirty

NewOps == <<"rev-parse", "worktree-add", "config-set">>

\* C29: the commands of a new session are, in order, the read of the active
\* branch, git worktree add and the write of the association, each issued
\* only after the one before succeeded; a step of a session that has no
\* successful worktree add creates no branch and no working copy, and a
\* step of a session that has no successful write leaves the associations
\* as they are.
C29_NewOrder ==
    [][\A s \in Sess :
         (sess'[s] # sess[s] /\ sess'[s].kind = "new") =>
             LET l == sess'[s].log IN
             /\ Len(l) <= 3
             /\ \A i \in DOMAIN l :
                  /\ l[i].op = NewOps[i]
                  /\ i > 1 => l[i - 1].res = "ok"
             /\ (\A i \in DOMAIN l : ~(l[i].op = "worktree-add" /\ l[i].res = "ok"))
                  => UNCHANGED <<wt, heads>>
             /\ (\A i \in DOMAIN l : ~(l[i].op = "config-set" /\ l[i].res = "ok"))
                  => UNCHANGED assoc]_vars

C29_Witness ==
    \E s \in Sess : Done(s, "new") /\ sess[s].exitCode = 1
        /\ Len(LogOf(s)) = 2 /\ LogOf(s)[2].res = "refused"
        /\ sess[s].name \in DOMAIN heads
        /\ sess[s].name \notin DOMAIN assoc

\* sessions s and t finish two different task branches into the same base
\* branch and no command of either failed for a reason outside the
\* repository
TwoTasksOneBase(s, t) ==
    /\ s # t /\ sess[s].kind = "finish" /\ sess[t].kind = "finish"
    /\ sess[s].baseBranch # NoBranch /\ sess[s].baseBranch = sess[t].baseBranch
    /\ sess[s].currentBranch # sess[t].currentBranch
    /\ NoEngineFault(s) /\ NoEngineFault(t)

\* C30: of two concurrent finish sessions for different task branches with
\* the same base branch, neither removes the working copy of the other,
\* the task branch of one is gone only through that session's own
\* deletion, and when both have returned 0 the base branch holds the
\* commits of both task branches.
C30_ConcurrentFinish ==
    \A s, t \in Sess :
        TwoTasksOneBase(s, t) =>
            /\ \A i \in Idx(s) :
                 (LogOf(s)[i].op = "worktree-remove" /\ LogOf(s)[i].res = "ok")
                     => LogOf(s)[i].dir # sess[t].currentWorktreePath
            /\ sess[t].currentBranch \notin DOMAIN heads => IssuedWith(t, "delete-local", "ok")
            /\ (sess[s].pc = "done" /\ sess[t].pc = "done"
                  /\ sess[s].exitCode = 0 /\ sess[t].exitCode = 0) =>
                 /\ sess[s].baseBranch \in DOMAIN heads
                 /\ \A u \in {s, t} :
                      sess[u].currentBranch \in DOMAIN heads =>
                          heads[sess[u].currentBranch] \subseteq heads[sess[s].baseBranch]

\* C31: a session never has more than one git command in flight, and a
\* command is started only when none of the session is in flight.
C31_OneInFlight ==
    [][\A s \in Sess :
         /\ sess'[s].inFlight <= 1
         /\ sess'[s].inFlight > sess[s].inFlight => sess[s].inFlight = 0]_vars

\* the second removal of a delete --all loop is in flight after the first
\* has settled
C31_Witness ==
    \E s \in Sess : sess[s].kind = "deleteAll" /\ sess[s].issued = 4
        /\ sess[s].inFlight = 1 /\ sess[s].site = SiteOf("deleteAll", "worktree-remove")

ReaderKinds == {"finish", "delete", "deleteAll"}

\* the config writes in the log of a session
ConfigWrites(l) == {i \in DOMAIN l : l[i].op = "config-set"}

\* a step of a new session writes at most the association of its own name,
\* as the last command of a session that returns 0, and a new session that
\* returned 0 wrote it exactly once
WrittenOnceByNew(s) ==
    LET r == sess'[s] IN
    /\ assoc' # assoc =>
         /\ assoc' = (r.name :> r.currentBranch) @@ assoc
         /\ r.log[Len(r.log)].op = "config-set" /\ r.log[Len(r.log)].res = "ok"
         /\ ConfigWrites(sess[s].log) = {}
    /\ (r.pc = "done" /\ r.exitCode = 0) =>
         /\ Cardinality(ConfigWrites(r.log)) = 1
         /\ \A i \in ConfigWrites(r.log) : r.log[i].res = "ok"

IntegrationOps == {"pull", "merge", "push"}

\* C33: a step of finish that issues pull, merge or push is taken with
\* baseBranchCheckedOut true, after a successful checkout in the session's
\* directory or after the re-route bound the executor of the main
\* repository; a session whose checkout was issued and left the flag false
\* is on its way to the re-route or has returned 1.
C33_IntegrationNeedsBase ==
    [][\A s \in Sess :
         sess[s].kind = "finish" =>
             /\ (Len(sess'[s].log) = Len(sess[s].log) + 1
                  /\ sess'[s].log[Len(sess'[s].log)].op \in IntegrationOps) =>
                    /\ sess[s].baseBranchCheckedOut
                    /\ \/ IssuedWith(s, "checkout", "ok") /\ sess[s].mainRepoDir = NoDir
                       \/ ~IssuedWith(s, "checkout", "ok") /\ Issued(s, "main-repo-dir")
                            /\ sess[s].mainRepoDir # NoDir
             /\ (Issued(s, "checkout") /\ ~sess[s].baseBranchCheckedOut) =>
                    \/ sess[s].pc = "f_mainrepo"
                    \/ sess[s].pc = "done" /\ sess[s].exitCode = 1
                         /\ \A i \in Idx(s) : LogOf(s)[i].op \notin IntegrationOps]_vars

\* a re-routed session that went on to merge in the main repository
C33_Witness ==
    \E s \in Sess : sess[s].kind = "finish" /\ IssuedWith(s, "checkout", "busy")
        /\ sess[s].baseBranchCheckedOut /\ sess[s].mainRepoDir = Root
        /\ sess[s].cwd # Root /\ Issued(s, "merge")

\* the successful removals in the log of session s
SuccessfulRemovals(s) ==
    {i \in Idx(s) : LogOf(s)[i].op = "worktree-remove" /\ LogOf(s)[i].res = "ok"}

\* C34: a finish session removes at most one working copy, and a working
\* copy it removes is the one it was started in.
C34_RemovesOwnWorkingCopy ==
    \A s \in Sess :
        sess[s].kind = "finish" =>
            /\ Cardinality(SuccessfulRemovals(s)) <= 1
            /\ \A i \in SuccessfulRemovals(s) : LogOf(s)[i].dir = sess[s].cwd

\* C35: a working copy removed by delete <name> had <name> as its active
\* branch when it was removed.
C35_DeleteRemovesNamedBranch ==
    \A s \in Sess :
        sess[s].kind = "delete" =>
            \A i \in SuccessfulRemovals(s) : LogOf(s)[i].on = sess[s].name

\* C36: a step of a finish session leaves the active branch of every
\* working copy other than the one the session was started in as it is, and
\* the only checkout a session issues is in that working copy; a re-routed
\* session issues pull, merge and push in the other directory.
C36_OtherWorkingCopiesKeepBranch ==
    [][\A s \in Sess :
         (sess'[s] # sess[s] /\ sess'[s].kind = "finish") =>
             LET l == sess'[s].log IN
             /\ \A p \in DOMAIN wt \cap DOMAIN wt' :
                  p # sess'[s].cwd => wt'[p] = wt[p]
             /\ \A i \in DOMAIN l :
                  /\ l[i].op = "checkout" => l[i].dir = sess'[s].cwd
                  /\ (l[i].op \in IntegrationOps /\ sess'[s].mainRepoDir # NoDir)
                       => l[i].dir = sess'[s].mainRepoDir]_vars

\* a session started in a linked working copy that was re-routed and
\* pushed from the main repository, whose active branch is what it was
C36_Witness ==
    \E s \in Sess : Done(s, "finish") /\ sess[s].cwd # Root /\ sess[s].mainRepoDir = Root
        /\ \E i \in Idx(s) : /\ LogOf(s)[i].op = "push" /\ LogOf(s)[i].res = "ok"
                             /\ LogOf(s)[i].dir = Root
                             /\ Root \in DOMAIN wt /\ wt[Root] = LogOf(s)[i].on
        /\ \A j \in Idx(s) : LogOf(s)[j].op = "checkout" => LogOf(s)[j].res # "ok"

LastEntry(l) == l[Len(l)]

\* the step of session s appended a log entry of operation o
Appended(s, o) ==
    /\ Len(sess'[s].log) = Len(sess[s].log) + 1
    /\ LastEntry(sess'[s].log).op = o

AfterRerouteOps == {"show-ref-remote", "delete-remote", "show-ref-local", "delete-local"}

\* C38: outside a command of the directory executor the working directory
\* of a finish process is the directory it was started in, whatever the
\* commands run through the executor did, and the commands issued with the
\* original executor after a re-route ran in that directory.
C38_ExecutorRestoresCwd ==
    \A s \in Sess :
        (sess[s].kind = "finish" /\ sess[s].currentWorktreePath # NoDir) =>
            /\ sess[s].enteredAt = -1 => sess[s].cwd = sess[s].currentWorktreePath
            /\ \A i \in Idx(s) :
                 LogOf(s)[i].op \in AfterRerouteOps
                     => LogOf(s)[i].dir = sess[s].currentWorktreePath
====
